---- MODULE Spec2Model ----
(***************************************************************************)
(* Model of yhonda-ohishi/etc_data_processor: the ETC CSV batch parser     *)
(* (pkg/parser, etc_parser.go), the batch orchestrator processRecords and  *)
(* the handlers ProcessCSVFile, ProcessCSVData and ValidateCSVData         *)
(* (pkg/handler/service.go).                                               *)
(*                                                                         *)
(* Specifications: Spec (processRecords), SpecParse (ETCCSVParser.Parse),  *)
(* SpecCalls (one call of a function of the parser or of                   *)
(* CreateDuplicateKey), SpecValidate (ValidateCSVData over Parse),         *)
(* SpecProcess (ProcessCSVFile / ProcessCSVData over processRecords),       *)
(* SpecAgree (ValidateCSVData, then ProcessCSVData on the same input),     *)
(* SpecTwoRuns (two interleaved calls of processRecords on one service).   *)
(*                                                                         *)
(* Text is modelled as a sequence of characters, each character a short    *)
(* token: an ASCII character stands for itself ("2", "/", "_"), a          *)
(* non-ASCII character of the source is spelled by a romanised token       *)
(* ("ryou","kin" for U+6599 U+91D1).                                       *)
(***************************************************************************)
EXTENDS Integers, Sequences, FiniteSets, TLC

\* ------------------------------------------------------------------ bounds
\* Longest record sequence handed to processRecords.
MaxRecords == 4
\* Largest number of rows the CSV reader yields to Parse.
MaxRows == 3
\* Width in bits of the modelled int (two's complement); the platform's is 64.
IntBits == 16
\* Longest record sequence the parser returns to ProcessCSVFile / ProcessCSVData.
MaxRpcRecords == 2

\* --------------------------------------------------------------- text
Digits == <<"0", "1", "2", "3", "4", "5", "6", "7", "8", "9">>

IsDigit(c) == \E k \in 1..10 : Digits[k] = c

DigitVal(c) == (CHOOSE k \in 1..10 : Digits[k] = c) - 1

RECURSIVE DigitsVal(_)
DigitsVal(s) ==
  IF s = <<>> THEN 0
  ELSE 10 * DigitsVal(SubSeq(s, 1, Len(s) - 1)) + DigitVal(s[Len(s)])

RECURSIVE StripZeros(_)
StripZeros(s) ==
  IF s # <<>> /\ Head(s) = "0" THEN StripZeros(Tail(s)) ELSE s

RECURSIVE NatToStr(_)
NatToStr(n) ==
  IF n < 10 THEN <<Digits[n + 1]>>
  ELSE NatToStr(n \div 10) \o <<Digits[(n % 10) + 1]>>

\* The largest and the smallest int.
MaxInt == 2^(IntBits - 1) - 1
MinInt == 0 - 2^(IntBits - 1)

\* An arithmetic result as the int that holds it: wrapped into MinInt..MaxInt.
WrapInt(x) == ((x - MinInt) % 2^IntBits) + MinInt

\* Decimal digits of the largest int.
MaxIntDigits == NatToStr(MaxInt)

\* Decimal digits of the magnitude of the smallest int.
MinIntDigits == NatToStr(0 - MinInt)

RECURSIVE DigitsLeq(_, _)
DigitsLeq(a, b) ==
  IF a = <<>> THEN TRUE
  ELSE IF DigitVal(Head(a)) < DigitVal(Head(b)) THEN TRUE
  ELSE IF DigitVal(Head(a)) > DigitVal(Head(b)) THEN FALSE
  ELSE DigitsLeq(Tail(a), Tail(b))

\* Whether the magnitude written by the digits fits the limit's digits.
FitsDigits(ds, limit) ==
  LET z == StripZeros(ds) IN
    \/ Len(z) < Len(limit)
    \/ Len(z) = Len(limit) /\ DigitsLeq(z, limit)

\* strconv.Atoi succeeds: an optional sign, then one or more decimal digits,
\* the value in the range of int.
AtoiOk(s) ==
  LET neg  == s # <<>> /\ Head(s) = "-"
      sgn  == s # <<>> /\ Head(s) \in {"-", "+"}
      body == IF sgn THEN Tail(s) ELSE s
  IN  /\ body # <<>>
      /\ \A k \in 1..Len(body) : IsDigit(body[k])
      /\ FitsDigits(body, IF neg THEN MinIntDigits ELSE MaxIntDigits)

\* The value strconv.Atoi returns when it succeeds.
AtoiVal(s) ==
  LET neg  == Head(s) = "-"
      body == IF Head(s) \in {"-", "+"} THEN Tail(s) ELSE s
  IN  IF neg THEN 0 - DigitsVal(body) ELSE DigitsVal(body)

\* strconv.Atoi: (value, err == nil); the value is 0 on an error.
Atoi(s) == [ok |-> AtoiOk(s), val |-> IF AtoiOk(s) THEN AtoiVal(s) ELSE 0]

\* fmt's %d verb.
IntToStr(n) == IF n < 0 THEN <<"-">> \o NatToStr(0 - n) ELSE NatToStr(n)

\* strings.Split(s, sep) for a one-character separator.
RECURSIVE Split(_, _)
Split(s, sep) ==
  IF \A k \in 1..Len(s) : s[k] # sep THEN <<s>>
  ELSE LET p == CHOOSE k \in 1..Len(s) :
                  s[k] = sep /\ \A j \in 1..(k - 1) : s[j] # sep
       IN  <<SubSeq(s, 1, p - 1)>> \o Split(SubSeq(s, p + 1, Len(s)), sep)

\* strings.Contains(s, sub).
Contains(s, sub) ==
  \E k \in 0..(Len(s) - Len(sub)) : SubSeq(s, k + 1, k + Len(sub)) = sub

\* strings.ReplaceAll(s, old, "") for a one-character old.
RECURSIVE RemoveAll(_, _)
RemoveAll(s, c) ==
  IF s = <<>> THEN <<>>
  ELSE IF Head(s) = c THEN RemoveAll(Tail(s), c)
  ELSE <<Head(s)>> \o RemoveAll(Tail(s), c)


\* ------------------------------------------------------ parser: records
\* ActualETCRecord{} : every text field empty, every number 0.
ZeroRecord ==
  [EntryDate |-> <<>>, EntryTime |-> <<>>, ExitDate |-> <<>>, ExitTime |-> <<>>,
   EntryIC |-> <<>>, ExitIC |-> <<>>, RouteInfo |-> <<>>,
   ETCAmount |-> 0, NormalAmount |-> 0, DiscountApplied |-> 0, Mileage |-> 0,
   VehicleClass |-> 0, VehicleNumber |-> <<>>, CardNumber |-> <<>>,
   Notes |-> <<>>]

\* The value an out-of-range slice index produces: a run-time panic.
Panic == <<"panic: index out of range">>

\* getFieldSafe(record, index); index is 0-based as in the source.
getFieldSafe(record, index) ==
  IF index < Len(record)
    THEN (IF index >= 0 THEN record[index + 1] ELSE Panic)
    ELSE <<>>

\* parseAmount without the strings.ReplaceAll of line 207.
parseAmount_KeepsCommas(s) == Atoi(s)

\* parseAmount(s): commas removed, then strconv.Atoi on either branch.
parseAmount(s) ==
  LET t == RemoveAll(s, ",") IN
    IF t # <<>> /\ Head(t) = "-" THEN Atoi(t) ELSE Atoi(t)

\* The days of month m of year y in the calendar of time.Date (proleptic
\* Gregorian).
DaysIn(y, m) ==
  IF m = 2
    THEN (IF y % 4 = 0 /\ (y % 100 # 0 \/ y % 400 = 0) THEN 29 ELSE 28)
  ELSE IF m \in {4, 6, 9, 11} THEN 30 ELSE 31

\* The day-of-month d counted from the first of month m of year y, carried
\* into the neighbouring months until it names a day of its month.
RECURSIVE NormDay(_, _, _)
NormDay(y, m, d) ==
  IF d < 1
    THEN LET py == IF m = 1 THEN y - 1 ELSE y
             pm == IF m = 1 THEN 12 ELSE m - 1
         IN  NormDay(py, pm, d + DaysIn(py, pm))
  ELSE IF d > DaysIn(y, m)
    THEN NormDay(IF m = 12 THEN y + 1 ELSE y, IF m = 12 THEN 1 ELSE m + 1,
                 d - DaysIn(y, m))
  ELSE <<y, m, d>>

\* time.Date(year, month, day, 0, 0, 0, 0, time.UTC): an out-of-range month
\* overflows into the year, an out-of-range day into the month.
TimeDate(year, month, day) ==
  LET y1 == year + ((month - 1) \div 12)
      m1 == ((month - 1) % 12) + 1
      n  == NormDay(y1, m1, day)
  IN  [year |-> n[1], month |-> n[2], day |-> n[3],
       hour |-> 0, min |-> 0, sec |-> 0, nsec |-> 0, loc |-> "UTC"]

\* time.Time{}: January 1, year 1, 00:00:00 UTC.
ZeroTime ==
  [year |-> 1, month |-> 1, day |-> 1,
   hour |-> 0, min |-> 0, sec |-> 0, nsec |-> 0, loc |-> "UTC"]

\* Mutant: the pivot is off by one, so 50 lands in 2050.
ExpandYear_PivotAfter50(year) ==
  IF year < 100 THEN (IF year <= 50 THEN year + 2000 ELSE year + 1900) ELSE year

\* The year parseDate hands to time.Date: a value below 100 is moved into
\* 2000..2049 or 1950..1999.
ExpandYear(year) ==
  IF year < 100 THEN (IF year < 50 THEN year + 2000 ELSE year + 1900) ELSE year

\* Mutant: a month outside 1..12 is rejected.
parseDate_ChecksMonth(dateStr) ==
  LET parts == Split(dateStr, "/")
      y == Atoi(parts[1])
      m == Atoi(parts[2])
      d == Atoi(parts[3])
  IN  IF Len(parts) # 3
        THEN [ok |-> FALSE, err |-> "invalid date format", date |-> ZeroTime]
      ELSE IF ~y.ok THEN [ok |-> FALSE, err |-> "year", date |-> ZeroTime]
      ELSE IF ~m.ok \/ m.val \notin 1..12
        THEN [ok |-> FALSE, err |-> "month", date |-> ZeroTime]
      ELSE IF ~d.ok THEN [ok |-> FALSE, err |-> "day", date |-> ZeroTime]
      ELSE [ok |-> TRUE, err |-> "nil",
            date |-> TimeDate(ExpandYear(y.val), m.val, d.val)]

\* parseDate(dateStr): three "/"-separated integers, two-digit years expanded.
parseDate(dateStr) ==
  LET parts == Split(dateStr, "/")
      y == Atoi(parts[1])
      m == Atoi(parts[2])
      d == Atoi(parts[3])
  IN  IF Len(parts) # 3
        THEN [ok |-> FALSE, err |-> "invalid date format", date |-> ZeroTime]
      ELSE IF ~y.ok THEN [ok |-> FALSE, err |-> "year", date |-> ZeroTime]
      ELSE IF ~m.ok THEN [ok |-> FALSE, err |-> "month", date |-> ZeroTime]
      ELSE IF ~d.ok THEN [ok |-> FALSE, err |-> "day", date |-> ZeroTime]
      ELSE [ok |-> TRUE, err |-> "nil",
            date |-> TimeDate(ExpandYear(y.val), m.val, d.val)]

\* Mutant: the dates are checked before the card number.
ValidateRecord_DatesFirst(record) ==
  IF record.EntryDate # <<>> /\ ~parseDate(record.EntryDate).ok
    THEN "invalid entry date"
  ELSE IF record.ExitDate # <<>> /\ ~parseDate(record.ExitDate).ok
    THEN "invalid exit date"
  ELSE IF record.CardNumber = <<>> THEN "card number cannot be empty"
  ELSE "nil"

\* ValidateRecord(record): the error it returns, "nil" for none.
ValidateRecord(record) ==
  IF record.CardNumber = <<>> THEN "card number cannot be empty"
  ELSE IF record.EntryDate # <<>> /\ ~parseDate(record.EntryDate).ok
    THEN "invalid entry date"
  ELSE IF record.ExitDate # <<>> /\ ~parseDate(record.ExitDate).ok
    THEN "invalid exit date"
  ELSE "nil"

\* The ETCRecord ConvertToSimpleRecord builds around a date and an amount.
SimpleRecord(actual, date, amount) ==
  [Date |-> date, EntryIC |-> actual.EntryIC,
   ExitIC |-> actual.ExitIC, Route |-> actual.RouteInfo,
   VehicleType |-> <<"C","l","a","s","s"," ">> \o IntToStr(actual.VehicleClass),
   Amount |-> amount, CardNumber |-> actual.CardNumber]

\* The amount of the simplified record: the ETC amount, the normal amount
\* when that is 0, negated (in int arithmetic) when negative.
SimpleAmount(actual) ==
  LET a0 == IF actual.ETCAmount = 0 THEN actual.NormalAmount ELSE actual.ETCAmount
  IN  IF a0 < 0 THEN WrapInt(0 - a0) ELSE a0

\* Mutant: the entry date is tried first, the exit date is the fallback.
ConvertToSimpleRecord_EntryFirst(actual) ==
  LET ex == parseDate(actual.ExitDate)
      en == parseDate(actual.EntryDate)
  IN  IF ~ex.ok /\ ~en.ok THEN [ok |-> FALSE, rec |-> <<>>]
      ELSE [ok |-> TRUE,
            rec |-> SimpleRecord(actual, IF en.ok THEN en.date ELSE ex.date,
                                 SimpleAmount(actual))]

\* ConvertToSimpleRecord(actual): exit date, else entry date; fee, else base.
ConvertToSimpleRecord(actual) ==
  LET ex == parseDate(actual.ExitDate)
      en == parseDate(actual.EntryDate)
  IN  IF ~ex.ok /\ ~en.ok THEN [ok |-> FALSE, rec |-> <<>>]
      ELSE [ok |-> TRUE,
            rec |-> SimpleRecord(actual, IF ex.ok THEN ex.date ELSE en.date,
                                 SimpleAmount(actual))]

\* ParseVehicleClass(record, fieldIndex): the integer, 0 when absent or bad;
\* a panic of getFieldSafe unwinds through it.
ParseVehicleClass(record, fieldIndex) ==
  LET fieldValue == getFieldSafe(record, fieldIndex) IN
    IF fieldValue = Panic THEN Panic
    ELSE IF fieldValue # <<>> THEN Atoi(fieldValue).val ELSE 0

\* Mutant: the comparison is strict, so a header alone counts as data.
ValidateRecordsAvailable_Strict(records, startIndex) ==
  IF Len(records) < startIndex THEN "no data records found" ELSE "nil"

\* ValidateRecordsAvailable(records, startIndex): the error, "nil" for none.
ValidateRecordsAvailable(records, startIndex) ==
  IF Len(records) <= startIndex THEN "no data records found" ELSE "nil"

\* --------------------------------------------------- parser: header names
\* Wrapped in full-width brackets U+FF08 U+FF09, and in ASCII brackets.
FW(w) == <<"FW(">> \o w \o <<"FW)">>
HW(w) == <<"(">> \o w \o <<")">>

Iri == <<"iri">>                               \* 入
De  == <<"de">>                                \* 出
Ji  == <<"ji">>                                \* 自
Shi == <<"shi">>                               \* 至
RiyouNengappi == <<"ri", "you", "nen", "gatsu", "hi">>   \* 利用年月日
Jikoku  == <<"toki", "koku">>                  \* 時刻
Jifun   == <<"toki", "fun">>                   \* 時分
RiyouIC == <<"ri", "you", "I", "C">>           \* 利用IC
RiyouFWIC == <<"ri", "you", "FW-I", "FW-C">>   \* 利用ＩＣ
Iriguchi == <<"iri", "kuchi">>                 \* 入口
Deguchi  == <<"de", "kuchi">>                  \* 出口
Hizuke   == <<"hi", "zuke">>                   \* 日付
Ryoukin  == <<"ryou", "kin">>                  \* 料金
Waribiki == <<"wari", "biki">>                 \* 割引
Gaku     == <<"gaku">>                         \* 額
KaadoW   == <<"KA", "chouon", "DO">>           \* カード
Bangou   == <<"ban", "gou">>                   \* 番号
ETC      == <<"E", "T", "C">>                  \* ETC
FWETC    == <<"FW-E", "FW-T", "FW-C">>         \* ＥＴＣ
Sha      == <<"sha">>                          \* 車

\* The keyword substrings that make row 0 a header (Parse, first loop).
HeaderKeywords ==
  {RiyouNengappi, Jikoku, RiyouIC, Ryoukin, KaadoW \o Bangou}

\* The candidate header names of each field, in the order parseWithHeaders
\* probes them.
EntryDateNames == <<RiyouNengappi \o FW(Iri), RiyouNengappi \o HW(Iri),
                    RiyouNengappi \o FW(Ji), Iriguchi \o Hizuke>>
EntryTimeNames == <<Jikoku \o FW(Iri), Jikoku \o HW(Iri), Jifun \o FW(Ji),
                    Iriguchi \o Jikoku>>
ExitDateNames == <<RiyouNengappi \o FW(De), RiyouNengappi \o HW(De),
                   RiyouNengappi \o FW(Shi), Deguchi \o Hizuke>>
ExitTimeNames == <<Jikoku \o FW(De), Jikoku \o HW(De), Jifun \o FW(Shi),
                   Deguchi \o Jikoku>>
EntryICNames == <<RiyouIC \o FW(Iri), RiyouIC \o HW(Iri), RiyouFWIC \o FW(Ji),
                  Iriguchi \o <<"I", "C">>, Iriguchi>>
ExitICNames == <<RiyouIC \o FW(De), RiyouIC \o HW(De), RiyouFWIC \o FW(Shi),
                 Deguchi \o <<"I", "C">>, Deguchi>>
RouteInfoNames == <<<<"kei", "ro", "jou", "hou">>, <<"ro", "sen">>,
                    <<"kei", "ro">>>>          \* 経路情報 路線 経路
NormalAmountNames == <<Waribiki \o <<"mae">> \o Ryoukin,
                       <<"tsuu", "kou">> \o Ryoukin,
                       <<"tsuu", "tsune">> \o Ryoukin>>  \* 割引前料金 通行料金 通常料金
DiscountNames == <<FWETC \o Waribiki \o Gaku, ETC \o Waribiki \o Gaku,
                   Waribiki \o Gaku>>          \* ＥＴＣ割引額 ETC割引額 割引額
ETCAmountNames == <<<<"tsuu", "kou">> \o Ryoukin, ETC \o Ryoukin, Ryoukin>>
PostPaymentNames == <<<<"ato", "nou">> \o Ryoukin,
                      <<"ato", "barai">> \o Ryoukin>>  \* 後納料金 後払料金
VehicleClassNames == <<Sha \o <<"shu">>, Sha \o <<"ryo", "ku", "fun">>,
                       Sha \o <<"shu", "ku", "fun">>>> \* 車種 車両区分 車種区分
VehicleNumberNames == <<Sha \o <<"ryo">> \o Bangou,
                        <<"NA", "N", "BA", "chouon">>,
                        Sha \o <<"ban">>>>     \* 車両番号 ナンバー 車番
CardNumberNames == <<FWETC \o KaadoW \o Bangou, ETC \o KaadoW \o Bangou,
                     KaadoW \o Bangou, KaadoW>>
NotesNames == <<<<"bi", "kangae">>, <<"ME", "MO">>, <<"chuu", "ki">>>>  \* 備考 メモ 注記

\* ------------------------------------------------------ parser: mapping
\* The header map Parse builds from row 0: cell text to its 0-based index,
\* a later cell with the same text overwriting an earlier one.
BuildHeaderMap(firstRow) ==
  [col \in {firstRow[k] : k \in 1..Len(firstRow)} |->
     (CHOOSE k \in 1..Len(firstRow) :
        firstRow[k] = col /\ \A j \in (k + 1)..Len(firstRow) : firstRow[j] # col) - 1]

\* The empty map (make(map[string]int)).
EmptyHeaderMap == [col \in {} |-> 0]

\* Mutant: only the first cell of the row is searched for a keyword.
IsHeaderRow_FirstCellOnly(firstRow) ==
  firstRow # <<>> /\ \E kw \in HeaderKeywords : Contains(firstRow[1], kw)

\* Whether some cell of the row contains a header keyword.
IsHeaderRow(firstRow) ==
  \E k \in 1..Len(firstRow) : \E kw \in HeaderKeywords : Contains(firstRow[k], kw)

\* Mutant: the first name that is in the map decides, also when the record is
\* too short to hold its column.
RECURSIVE getFieldByHeader_StopsAtPresent(_, _, _)
getFieldByHeader_StopsAtPresent(record, headerMap, headerNames) ==
  IF headerNames = <<>> THEN <<>>
  ELSE LET headerName == Head(headerNames) IN
    IF headerName \in DOMAIN headerMap
      THEN (IF headerMap[headerName] < Len(record)
              THEN record[headerMap[headerName] + 1] ELSE <<>>)
      ELSE getFieldByHeader_StopsAtPresent(record, headerMap, Tail(headerNames))

\* getFieldByHeader(record, headerMap, headerNames...): the cell under the first
\* name that is in the map and whose index the record holds.
RECURSIVE getFieldByHeader(_, _, _)
getFieldByHeader(record, headerMap, headerNames) ==
  IF headerNames = <<>> THEN <<>>
  ELSE LET headerName == Head(headerNames) IN
    IF headerName \in DOMAIN headerMap /\ headerMap[headerName] < Len(record)
      THEN record[headerMap[headerName] + 1]
      ELSE getFieldByHeader(record, headerMap, Tail(headerNames))

\* parseWithHeaders(record, headerMap).
parseWithHeaders(record, headerMap) ==
  LET F(names) == getFieldByHeader(record, headerMap, names)
      normalAmountStr == F(NormalAmountNames)
      discountStr     == F(DiscountNames)
      etcAmountStr    == F(ETCAmountNames)
      postPaymentStr  == F(PostPaymentNames)
      vehicleClassStr == F(VehicleClassNames)
      etc0 == IF etcAmountStr # <<>> /\ parseAmount(etcAmountStr).ok
                THEN parseAmount(etcAmountStr).val ELSE 0
      post == parseAmount(postPaymentStr)
  IN  [EntryDate |-> F(EntryDateNames),
       EntryTime |-> F(EntryTimeNames),
       ExitDate  |-> F(ExitDateNames),
       ExitTime  |-> F(ExitTimeNames),
       EntryIC   |-> F(EntryICNames),
       ExitIC    |-> F(ExitICNames),
       RouteInfo |-> F(RouteInfoNames),
       NormalAmount |-> IF normalAmountStr # <<>> /\ parseAmount(normalAmountStr).ok
                          THEN parseAmount(normalAmountStr).val ELSE 0,
       DiscountApplied |-> IF discountStr # <<>> /\ parseAmount(discountStr).ok
                             THEN parseAmount(discountStr).val ELSE 0,
       ETCAmount |-> IF postPaymentStr # <<>> /\ post.ok /\ post.val # 0
                       THEN post.val ELSE etc0,
       Mileage |-> 0,
       VehicleClass |-> IF vehicleClassStr # <<>> /\ Atoi(vehicleClassStr).ok
                          THEN Atoi(vehicleClassStr).val ELSE 0,
       VehicleNumber |-> F(VehicleNumberNames),
       CardNumber |-> F(CardNumberNames),
       Notes |-> F(NotesNames)]

\* Mutant: an amount cell that does not parse is reported as -1.
PositionalAmount_Sentinel(record, index) ==
  LET s == getFieldSafe(record, index) IN
    IF s = <<>> THEN 0
    ELSE IF parseAmount(s).ok THEN parseAmount(s).val ELSE 0 - 1

\* An amount cell of the positional layout: 0 when empty or unparsable.
PositionalAmount(record, index) ==
  LET s == getFieldSafe(record, index) IN
    IF s # <<>> /\ parseAmount(s).ok THEN parseAmount(s).val ELSE 0

\* The least number of cells a positional row needs to be kept.
MinPositionalFields == 13

\* The positional mapping of Parse (rows of at least MinPositionalFields cells).
parsePositional(record) ==
  [EntryDate |-> record[1], EntryTime |-> record[2],
   ExitDate  |-> record[3], ExitTime  |-> record[4],
   EntryIC   |-> record[5], ExitIC    |-> record[6],
   RouteInfo |-> getFieldSafe(record, 6),
   ETCAmount |-> PositionalAmount(record, 7),
   NormalAmount |-> PositionalAmount(record, 8),
   DiscountApplied |-> PositionalAmount(record, 9),
   Mileage |-> PositionalAmount(record, 10),
   VehicleClass |-> ParseVehicleClass(record, 11),
   VehicleNumber |-> getFieldSafe(record, 12),
   CardNumber |-> getFieldSafe(record, 13),
   Notes |-> getFieldSafe(record, 14)]

\* Mutant: a row whose record fails ValidateRecord is skipped too.
DropsRow_SkipsInvalid(record, headerMap) ==
  IF DOMAIN headerMap = {} /\ Len(record) < MinPositionalFields THEN TRUE
  ELSE ValidateRecord(IF DOMAIN headerMap # {}
                        THEN parseWithHeaders(record, headerMap)
                        ELSE parsePositional(record)) # "nil"

\* Mutant: the length test is off by one, so a 13-cell row is dropped.
DropsRow_OffByOne(record, headerMap) ==
  DOMAIN headerMap = {} /\ Len(record) <= MinPositionalFields

\* Whether the loop of Parse drops the row (positional mode, too few cells).
DropsRow(record, headerMap) ==
  DOMAIN headerMap = {} /\ Len(record) < MinPositionalFields

\* The record the loop of Parse appends for a row it keeps.
MapRow(record, headerMap) ==
  IF DOMAIN headerMap # {} THEN parseWithHeaders(record, headerMap)
  ELSE parsePositional(record)

\* ------------------------------------------------- orchestrator: helpers
\* The dedup key of processRecords: "%s_%s_%s_%s_%d_%s".
ProcessKey(record) ==
  record.EntryDate \o <<"_">> \o record.EntryTime \o <<"_">> \o
  record.ExitDate \o <<"_">> \o record.ExitTime \o <<"_">> \o
  IntToStr(record.ETCAmount) \o <<"_">> \o record.CardNumber

\* Mutant: the cancellation diagnostic numbers records from 1, as the others do.
CancelDiag_OneBased(idx) == <<"Processing cancelled at record", idx + 1>>

\* "Processing cancelled at record %d" with the 0-based loop index.
CancelDiag(idx) == <<"Processing cancelled at record", idx>>

\* "Record %d: conversion failed: %v" with the 1-based record number.
ConversionDiag(idx) == <<"Record", idx + 1, "conversion failed">>

\* Mutant: the save diagnostic carries the 0-based loop index.
SaveDiag_ZeroBased(idx) == <<"Record", idx, "save failed">>

\* "Record %d: save failed: %v" with the 1-based record number.
SaveDiag(idx) == <<"Record", idx + 1, "save failed">>

\* The stats processRecords starts from.
InitialStats(n) ==
  [TotalRecords |-> n, SavedRecords |-> 0, SkippedRecords |-> 0, ErrorRecords |-> 0]

\* Mutant: the record at whose check the cancellation is seen is not counted.
CancelledErrorRecords_SkipsCurrent(st, n, idx) == n - idx - 1

\* The error count written when cancellation is observed at index idx.
CancelledErrorRecords(st, n, idx) == n - idx

\* Mutant: a failed record is not counted.
CountError_Forgets(st) == st

\* stats.ErrorRecords++ of a failed conversion or save.
CountError(st) == [st EXCEPT !.ErrorRecords = @ + 1]

\* Mutant: the cancellation branch continues the loop instead of leaving it.
AfterCancel_Continue == "loop"

\* Where control goes after cancellation is observed: break leaves the loop.
AfterCancel == "done"

\* Mutant: duplicates are skipped whatever the flag says.
ShouldSkip_IgnoresFlag(skip, keys, key) == key \in keys

\* The guard of the duplicate skip.
ShouldSkip(skip, keys, key) == skip /\ key \in keys

\* Mutant: the key of a saved record is not remembered.
MarkProcessed_Forgets(keys, key) == keys

\* The processed-key set after a record has been saved.
MarkProcessed(keys, key) == keys \cup {key}

\* ------------------------------------------------------------- inputs
D250901 == <<"2", "5", "/", "0", "9", "/", "0", "1">>
DNonNumeric == <<"A", "B", "/", "C", "D", "/", "E", "F">>
T0800 == <<"0", "8", ":", "0", "0">>
T0900 == <<"0", "9", ":", "0", "0">>
Card1 == <<"*", "1">>
Card2 == <<"*", "2">>

\* A record with valid dates.
RecA ==
  [ZeroRecord EXCEPT !.EntryDate = D250901, !.EntryTime = T0800,
                     !.ExitDate = D250901, !.ExitTime = T0900,
                     !.ETCAmount = 1200, !.NormalAmount = 1500,
                     !.VehicleClass = 2, !.CardNumber = Card1]

\* RecA on another card.
RecB == [RecA EXCEPT !.CardNumber = Card2]

\* A record neither of whose dates parses.
RecBad == [RecA EXCEPT !.EntryDate = DNonNumeric, !.ExitDate = <<>>]

RecordPool == {RecA, RecB, RecBad}

\* The fixture of TestProcessCSVData_SkipMultipleDuplicates: one record
\* repeated DuplicateRun times.
DuplicateRun == 5
DuplicateFixture == [k \in 1..DuplicateRun |-> RecA]

\* Every sequence over S of length 0..n.
SeqsUpTo(S, n) == UNION {[1..k -> S] : k \in 0..n}

\* ------------------------------------------------------------- state
VARIABLES
  \* processRecords
  records,        \* the parsed records handed to processRecords
  skipDuplicates, \* the request's flag
  parserKind,     \* "etc": the service's ETCCSVParser; "mock": an injected Parser
  dbClientNil,    \* whether s.dbClient is nil
  ctxErr,         \* whether ctx.Err() is non-nil
  pc,             \* "loop" | "convert" | "store" | "done" | "idle"
  i,              \* the loop index (0-based)
  stats,          \* the ProcessingStats being built
  errors,         \* the diagnostics list
  processedKeys,  \* the keys of processedKeys that are true
  convertCalls,   \* calls of parser.ConvertToSimpleRecord: <<index, succeeded>>
  storeCalls,     \* calls of dbClient.SaveETCData: <<index, succeeded>>
  parked,         \* the locals of a second processRecords call of the same
                  \* service while the first one runs; <<>> when there is none
  \* Parse
  reader,         \* "nil" | "bad" (ReadAll fails) | "ok"
  csvRows,        \* the rows csvReader.ReadAll yields
  ppc,            \* "start" | "check" | "rows" | "done" | "idle"
  headerMap,      \* header text -> 0-based column index
  startIndex,     \* index of the first data row
  rowIdx,         \* the loop index of Parse (0-based)
  etcRecords,     \* the output sequence
  parseErr,       \* the returned error, "nil" for none, "" while running
  \* one call of a parser function
  callFn,         \* the function called, e.g. "parseDate"; "none" for no call
  callArg,        \* the argument
  callRet,        \* <<>> before the call returns, then <<result>>
  \* ValidateCSVData
  validatorOk,    \* whether the request passes the validator
  vpc,            \* "request" | "parse" | "loop" | "done" | "idle"
  vi,             \* the loop index (0-based)
  duplicateMap,   \* key -> occurrences so far
  duplicateCount, \* the duplicate counter
  validationErrors, \* the validation errors so far
  vResponse,      \* <<>> or <<the ValidateCSVDataResponse>>
  vError,         \* the returned error, "nil" for none, "" while running
  \* ProcessCSVFile, ProcessCSVData
  rpc,            \* "ProcessCSVFile" | "ProcessCSVData" | "none"
  rpcPc,          \* "request" | "parse" | "process" | "done" | "idle"
  rpcResponse,    \* <<>> or <<the response>>
  rpcError        \* the returned error, "nil" for none, "" while running

orchVars == <<records, skipDuplicates, parserKind, dbClientNil, ctxErr, pc, i,
              stats, errors, processedKeys, convertCalls, storeCalls, parked>>
parseVars == <<reader, csvRows, ppc, headerMap, startIndex, rowIdx, etcRecords,
               parseErr>>
callVars == <<callFn, callArg, callRet>>
validateVars == <<validatorOk, vpc, vi, duplicateMap, duplicateCount,
                  validationErrors, vResponse, vError>>
rpcVars == <<rpc, rpcPc, rpcResponse, rpcError>>
vars == <<orchVars, parseVars, callVars, validateVars, rpcVars>>

\* What the steps of processRecords, and of Parse, leave alone.
notOrchVars == <<parked, parseVars, callVars, validateVars, rpcVars>>
notParseVars == <<orchVars, callVars, validateVars, rpcVars>>

\* processRecords is not running.
OrchIdle ==
  /\ records = <<>> /\ skipDuplicates = FALSE /\ parserKind = "etc"
  /\ dbClientNil = FALSE /\ ctxErr = FALSE /\ pc = "idle" /\ i = 0
  /\ stats = InitialStats(0) /\ errors = <<>> /\ processedKeys = {}
  /\ convertCalls = <<>> /\ storeCalls = <<>> /\ parked = <<>>

\* Parse is not running.
ParseIdle ==
  /\ reader = "ok" /\ csvRows = <<>> /\ ppc = "idle"
  /\ headerMap = EmptyHeaderMap /\ startIndex = 0 /\ rowIdx = 0
  /\ etcRecords = <<>> /\ parseErr = ""

\* No parser function is being called.
CallIdle == callFn = "none" /\ callArg = <<>> /\ callRet = <<>>

\* make(map[string]int).
EmptyDuplicateMap == [k \in {} |-> 0]

\* ValidateCSVData is not running.
ValidateIdle ==
  /\ validatorOk = TRUE /\ vpc = "idle" /\ vi = 0
  /\ duplicateMap = EmptyDuplicateMap /\ duplicateCount = 0
  /\ validationErrors = <<>> /\ vResponse = <<>> /\ vError = ""

\* Neither ProcessCSVFile nor ProcessCSVData is running.
RpcIdle == rpc = "none" /\ rpcPc = "idle" /\ rpcResponse = <<>> /\ rpcError = ""

\* ------------------------------------------------ processRecords
\* Entry of processRecords: stats, errors and processedKeys are fresh.
Init ==
  /\ records \in SeqsUpTo(RecordPool, MaxRecords) \cup {DuplicateFixture}
  /\ skipDuplicates \in BOOLEAN
  /\ parserKind \in {"etc", "mock"}
  /\ dbClientNil \in BOOLEAN
  /\ ctxErr \in BOOLEAN
  /\ pc = "loop"
  /\ i = 0
  /\ stats = InitialStats(Len(records))
  /\ errors = <<>>
  /\ processedKeys = {}
  /\ convertCalls = <<>>
  /\ storeCalls = <<>>
  /\ parked = <<>>
  /\ ParseIdle /\ CallIdle /\ ValidateIdle /\ RpcIdle

record == records[i + 1]
key == ProcessKey(record)

\* The caller's context is cancelled while processRecords runs.
Cancel ==
  /\ pc \in {"loop", "convert", "store"}
  /\ ~ctxErr
  /\ ctxErr' = TRUE
  /\ UNCHANGED <<records, skipDuplicates, parserKind, dbClientNil, pc, i, stats,
                 errors, processedKeys, convertCalls, storeCalls>>
  /\ UNCHANGED notOrchVars

\* Loop head, ctx.Err() != nil: diagnostic, error count, break.
ObserveCancel ==
  /\ pc = "loop" /\ i < Len(records)
  /\ ctxErr
  /\ errors' = Append(errors, CancelDiag(i))
  /\ stats' = [stats EXCEPT
                 !.ErrorRecords = CancelledErrorRecords(stats, Len(records), i)]
  /\ pc' = AfterCancel
  /\ UNCHANGED <<records, skipDuplicates, parserKind, dbClientNil, ctxErr, i,
                 processedKeys, convertCalls, storeCalls>>
  /\ UNCHANGED notOrchVars

\* Loop head, duplicate skipped.
SkipDuplicate ==
  /\ pc = "loop" /\ i < Len(records)
  /\ ~ctxErr
  /\ ShouldSkip(skipDuplicates, processedKeys, key)
  /\ stats' = [stats EXCEPT !.SkippedRecords = @ + 1]
  /\ i' = i + 1
  /\ UNCHANGED <<records, skipDuplicates, parserKind, dbClientNil, ctxErr, pc,
                 errors, processedKeys, convertCalls, storeCalls>>
  /\ UNCHANGED notOrchVars

\* Loop head, the record goes on to conversion.
BeginRecord ==
  /\ pc = "loop" /\ i < Len(records)
  /\ ~ctxErr
  /\ ~ShouldSkip(skipDuplicates, processedKeys, key)
  /\ pc' = "convert"
  /\ UNCHANGED <<records, skipDuplicates, parserKind, dbClientNil, ctxErr, i,
                 stats, errors, processedKeys, convertCalls, storeCalls>>
  /\ UNCHANGED notOrchVars

\* The results s.parser.ConvertToSimpleRecord(record) can have.
ConvertResults(kind, rec) ==
  IF kind = "etc" THEN {ConvertToSimpleRecord(rec).ok} ELSE BOOLEAN

\* ConvertToSimpleRecord fails: diagnostic, error count, continue.
ConvertFails ==
  /\ pc = "convert"
  /\ FALSE \in ConvertResults(parserKind, record)
  /\ convertCalls' = Append(convertCalls, <<i, FALSE>>)
  /\ errors' = Append(errors, ConversionDiag(i))
  /\ stats' = CountError(stats)
  /\ i' = i + 1
  /\ pc' = "loop"
  /\ UNCHANGED <<records, skipDuplicates, parserKind, dbClientNil, ctxErr,
                 processedKeys, storeCalls>>
  /\ UNCHANGED notOrchVars

\* ConvertToSimpleRecord succeeds: on to the save.
ConvertSucceeds ==
  /\ pc = "convert"
  /\ TRUE \in ConvertResults(parserKind, record)
  /\ convertCalls' = Append(convertCalls, <<i, TRUE>>)
  /\ pc' = "store"
  /\ UNCHANGED <<records, skipDuplicates, parserKind, dbClientNil, ctxErr, i,
                 stats, errors, processedKeys, storeCalls>>
  /\ UNCHANGED notOrchVars

\* SaveETCData fails: diagnostic, error count, continue.
SaveFails ==
  /\ pc = "store"
  /\ ~dbClientNil
  /\ storeCalls' = Append(storeCalls, <<i, FALSE>>)
  /\ errors' = Append(errors, SaveDiag(i))
  /\ stats' = CountError(stats)
  /\ i' = i + 1
  /\ pc' = "loop"
  /\ UNCHANGED <<records, skipDuplicates, parserKind, dbClientNil, ctxErr,
                 processedKeys, convertCalls>>
  /\ UNCHANGED notOrchVars

\* SaveETCData succeeds, or there is no client: key processed, saved count.
SaveSucceeds ==
  /\ pc = "store"
  /\ storeCalls' = IF dbClientNil THEN storeCalls
                   ELSE Append(storeCalls, <<i, TRUE>>)
  /\ processedKeys' = MarkProcessed(processedKeys, key)
  /\ stats' = [stats EXCEPT !.SavedRecords = @ + 1]
  /\ i' = i + 1
  /\ pc' = "loop"
  /\ UNCHANGED <<records, skipDuplicates, parserKind, dbClientNil, ctxErr,
                 errors, convertCalls>>
  /\ UNCHANGED notOrchVars

\* The loop is over: return stats, errors.
Return ==
  /\ pc = "loop" /\ i = Len(records)
  /\ pc' = "done"
  /\ UNCHANGED <<records, skipDuplicates, parserKind, dbClientNil, ctxErr, i,
                 stats, errors, processedKeys, convertCalls, storeCalls>>
  /\ UNCHANGED notOrchVars

Next ==
  \/ Cancel
  \/ ObserveCancel
  \/ SkipDuplicate
  \/ BeginRecord
  \/ ConvertFails
  \/ ConvertSucceeds
  \/ SaveFails
  \/ SaveSucceeds
  \/ Return

Spec == Init /\ [][Next]_vars

\* ------------------------------------------------------------- Parse
\* Cells of the rows fed to Parse.
IC1 == <<"T">>
IC2 == <<"Y">>
Route1 == <<"R">>
Note1 == <<"m">>
VehNo == <<"1", "2", "3", "4">>
A1500 == <<"1", ",", "5", "0", "0">>
AMinus300 == <<"-", "3", "0", "0">>
A1200 == <<"1", "2", "0", "0">>
Class2 == <<"2">>
Mile10 == <<"1", "0">>

\* The 13-column header of the service's fixtures (self/to dialect).
HeaderRow ==
  <<RiyouNengappi \o FW(Ji), Jifun \o FW(Ji), RiyouNengappi \o FW(Shi),
    Jifun \o FW(Shi), RiyouFWIC \o FW(Ji), RiyouFWIC \o FW(Shi),
    Waribiki \o <<"mae">> \o Ryoukin, FWETC \o Waribiki \o Gaku,
    <<"tsuu", "kou">> \o Ryoukin, Sha \o <<"shu">>, Sha \o <<"ryo">> \o Bangou,
    FWETC \o KaadoW \o Bangou, <<"bi", "kangae">>>>

\* A data row in the header's layout (13 cells).
Row13 ==
  <<D250901, T0800, D250901, T0900, IC1, IC2, A1500, AMinus300, A1200, Class2,
    VehNo, Card1, Note1>>

\* A data row in the positional layout (15 cells).
Row15 ==
  <<D250901, T0800, D250901, T0900, IC1, IC2, Route1, A1200, A1500, AMinus300,
    Mile10, Class2, VehNo, Card1, Note1>>

\* Row13 without its last cell (12 cells).
Row12 == SubSeq(Row13, 1, 12)

\* A row of three cells whose third is no date.
Row3 == <<D250901, T0800, DNonNumeric>>

\* Row13 with a malformed entry date.
Row13BadDate == [Row13 EXCEPT ![1] = DNonNumeric]

\* Row13 with an empty card cell.
Row13NoCard == [Row13 EXCEPT ![12] = <<>>]

\* A row of 15 cells whose cells 6..11 are empty or no numbers: the amount
\* and vehicle-class cells of both layouts.
RowBadNumbers ==
  <<D250901, T0800, D250901, T0900, IC1, IC2, <<"x">>, <<>>, <<"a", "b", "c">>,
    <<>>, <<"1", "2", ".", "5">>, <<"f", "u", "t", "s", "u", "u">>, VehNo,
    Card1, Note1>>

\* A header of four columns in the entry/exit dialect that names the entry
\* date twice: by its last candidate in column 0 and by its third in column 3.
AltHeaderRow ==
  <<Iriguchi \o Hizuke, Iriguchi \o Jikoku, KaadoW, RiyouNengappi \o FW(Ji)>>

RowPool ==
  {HeaderRow, Row13, Row15, Row12, Row3, Row13BadDate, Row13NoCard,
   RowBadNumbers, AltHeaderRow}

\* Entry of Parse.
InitParse ==
  /\ reader \in {"nil", "bad", "ok"}
  /\ csvRows \in (IF reader = "ok" THEN SeqsUpTo(RowPool, MaxRows) ELSE {<<>>})
  /\ ppc = "start"
  /\ headerMap = EmptyHeaderMap
  /\ startIndex = 0
  /\ rowIdx = 0
  /\ etcRecords = <<>>
  /\ parseErr = ""
  /\ OrchIdle /\ CallIdle /\ ValidateIdle /\ RpcIdle

\* reader == nil.
ParseNilReader ==
  /\ ppc = "start" /\ reader = "nil"
  /\ parseErr' = "reader cannot be nil"
  /\ ppc' = "done"
  /\ UNCHANGED <<reader, csvRows, headerMap, startIndex, rowIdx, etcRecords>>
  /\ UNCHANGED notParseVars

\* csvReader.ReadAll() fails.
ParseReadFails ==
  /\ ppc = "start" /\ reader = "bad"
  /\ parseErr' = "failed to read CSV"
  /\ ppc' = "done"
  /\ UNCHANGED <<reader, csvRows, headerMap, startIndex, rowIdx, etcRecords>>
  /\ UNCHANGED notParseVars

\* len(records) == 0.
ParseEmpty ==
  /\ ppc = "start" /\ reader = "ok"
  /\ Len(csvRows) = 0
  /\ parseErr' = "CSV file is empty"
  /\ ppc' = "done"
  /\ UNCHANGED <<reader, csvRows, headerMap, startIndex, rowIdx, etcRecords>>
  /\ UNCHANGED notParseVars

\* Row 0 is classified; a header fills headerMap and moves startIndex to 1.
DetectHeader ==
  /\ ppc = "start" /\ reader = "ok"
  /\ Len(csvRows) > 0
  /\ headerMap' = IF IsHeaderRow(csvRows[1]) THEN BuildHeaderMap(csvRows[1])
                  ELSE EmptyHeaderMap
  /\ startIndex' = IF IsHeaderRow(csvRows[1]) THEN 1 ELSE 0
  /\ ppc' = "check"
  /\ UNCHANGED <<reader, csvRows, rowIdx, etcRecords, parseErr>>
  /\ UNCHANGED notParseVars

\* ValidateRecordsAvailable fails.
ParseNoData ==
  /\ ppc = "check"
  /\ ValidateRecordsAvailable(csvRows, startIndex) # "nil"
  /\ parseErr' = ValidateRecordsAvailable(csvRows, startIndex)
  /\ ppc' = "done"
  /\ UNCHANGED <<reader, csvRows, headerMap, startIndex, rowIdx, etcRecords>>
  /\ UNCHANGED notParseVars

\* ValidateRecordsAvailable passes: the row loop starts at startIndex.
ParseBeginRows ==
  /\ ppc = "check"
  /\ ValidateRecordsAvailable(csvRows, startIndex) = "nil"
  /\ rowIdx' = startIndex
  /\ ppc' = "rows"
  /\ UNCHANGED <<reader, csvRows, headerMap, startIndex, etcRecords, parseErr>>
  /\ UNCHANGED notParseVars

\* One pass of the row loop over a row that is dropped.
ParseDropRow ==
  /\ ppc = "rows" /\ rowIdx < Len(csvRows)
  /\ DropsRow(csvRows[rowIdx + 1], headerMap)
  /\ rowIdx' = rowIdx + 1
  /\ UNCHANGED <<reader, csvRows, ppc, headerMap, startIndex, etcRecords, parseErr>>
  /\ UNCHANGED notParseVars

\* One pass of the row loop over a row that is mapped, validated (the result
\* discarded) and appended.
ParseKeepRow ==
  /\ ppc = "rows" /\ rowIdx < Len(csvRows)
  /\ ~DropsRow(csvRows[rowIdx + 1], headerMap)
  /\ etcRecords' = Append(etcRecords, MapRow(csvRows[rowIdx + 1], headerMap))
  /\ rowIdx' = rowIdx + 1
  /\ UNCHANGED <<reader, csvRows, ppc, headerMap, startIndex, parseErr>>
  /\ UNCHANGED notParseVars

\* return etcRecords, nil.
ParseReturn ==
  /\ ppc = "rows" /\ rowIdx = Len(csvRows)
  /\ parseErr' = "nil"
  /\ ppc' = "done"
  /\ UNCHANGED <<reader, csvRows, headerMap, startIndex, rowIdx, etcRecords>>
  /\ UNCHANGED notParseVars

NextParse ==
  \/ ParseNilReader
  \/ ParseReadFails
  \/ ParseEmpty
  \/ DetectHeader
  \/ ParseNoData
  \/ ParseBeginRows
  \/ ParseDropRow
  \/ ParseKeepRow
  \/ ParseReturn

SpecParse == InitParse /\ [][NextParse]_vars

\* ------------------------------------------- calls of parser functions
\* The components date texts are put together from.
YearTexts ==
  {<<"0", "0">>, <<"2", "4">>, <<"2", "5">>, <<"4", "9">>, <<"5", "0">>,
   <<"8", "5">>, <<"9", "9">>, <<"1", "0", "0">>, <<"2", "0", "2", "5">>,
   <<"x", "x">>, <<>>, <<"+", "7">>, <<"9", "9", "9", "9", "9", "9">>}
MonthTexts ==
  {<<"0", "1">>, <<"0", "9">>, <<"1", "2">>, <<"1", "3">>, <<"0">>,
   <<"x", "x">>, <<>>}
DayTexts ==
  {<<"0", "1">>, <<"2", "9">>, <<"3", "1">>, <<"3", "2">>, <<"x", "x">>, <<>>}

\* Components joined by "/".
Join3(a, b, c) == a \o <<"/">> \o b \o <<"/">> \o c

D240115 == <<"2", "4", "/", "0", "1", "/", "1", "5">>
D241301 == <<"2", "4", "/", "1", "3", "/", "0", "1">>

\* The texts handed to parseDate.
DateTexts ==
  {Join3(y, m, d) : y \in YearTexts, m \in MonthTexts, d \in DayTexts}
    \cup {<<>>, <<"/">>, <<"2", "5", "/", "0", "9">>,
          D250901 \o <<"/", "e", "x", "t", "r", "a">>,
          <<"2", "5", "-", "0", "9", "-", "0", "1">>}

\* The date cells of the records handed to ValidateRecord and
\* ConvertToSimpleRecord.
DateFields ==
  {<<>>, D250901, D240115, D241301, DNonNumeric, <<"2", "5", "/", "0", "9">>}

\* Their amounts.
Amounts == {MinInt, 0 - 1200, 0, 1500, MaxInt}

\* The records handed to ValidateRecord.
ValidateInputs ==
  {[RecA EXCEPT !.CardNumber = c, !.EntryDate = en, !.ExitDate = ex] :
     c \in {<<>>, Card1}, en \in DateFields, ex \in DateFields}

\* The records handed to ConvertToSimpleRecord.
ConvertInputs ==
  {[RecA EXCEPT !.EntryDate = en, !.ExitDate = ex,
                !.ETCAmount = fee, !.NormalAmount = base] :
     en \in DateFields, ex \in DateFields, fee \in Amounts, base \in Amounts}

\* The texts handed to parseAmount: the amount cells of
\* TestETCCSVParser_ParseAmount and texts strconv.Atoi rejects.
AmountTexts ==
  {<<"1", "5", "0", "0">>, <<"0">>, <<"-", "3", "0", "0">>,
   <<"1", "0", ",", "5", "0", "0">>, <<"-", "1", ",", "0", "0", "0">>,
   <<"9", ",", "5", "0", "0">>, <<"1", ",", "2", ",", "3">>, <<"+", "5">>,
   <<>>, <<",">>, <<"-">>, <<"a", "b", "c">>, <<"1", "2", ".", "5">>,
   <<"1", " ", "5", "0", "0">>, <<"1", "5", "0", "0", "-">>,
   <<"9", "9", "9", "9", "9", "9">>, <<"-", "9", "9", "9", ",", "9", "9", "9">>}

\* The (record, index) pairs handed to getFieldSafe and ParseVehicleClass:
\* the indices of TestETCCSVParser_GetFieldSafe and the class columns.
FieldCalls ==
  {<<rec, idx>> :
     rec \in {<<>>, <<<<"f", "0">>, <<"f", "1">>, <<"f", "2">>>>, Row13,
              RowBadNumbers},
     idx \in {0 - 2, 0 - 1, 0, 1, 2, 3, 9, 11, 12, 13}}

\* The pairs of records whose keys are built: the record of
\* TestCreateDuplicateKey's shape with exit times, amounts and card numbers
\* with and without the separator character.
KeyInputs ==
  LET recs == {[RecA EXCEPT !.ExitTime = xt, !.ETCAmount = amt,
                            !.CardNumber = c] :
                 xt \in {T0900, T0900 \o <<"_", "1", "2">>},
                 amt \in {5, 12, 1500},
                 c \in {Card1, <<"5", "_">> \o Card1}}
  IN recs \X recs

\* A parser function is about to be called on one argument.
InitCalls ==
  /\ callFn \in {"parseDate", "ValidateRecord", "ConvertToSimpleRecord",
                 "parseAmount", "getFieldSafe", "ParseVehicleClass",
                 "CreateDuplicateKey"}
  /\ callArg \in (IF callFn = "parseDate" THEN DateTexts
                  ELSE IF callFn = "ValidateRecord" THEN ValidateInputs
                  ELSE IF callFn = "ConvertToSimpleRecord" THEN ConvertInputs
                  ELSE IF callFn = "parseAmount" THEN AmountTexts
                  ELSE IF callFn \in {"getFieldSafe", "ParseVehicleClass"}
                    THEN FieldCalls
                  ELSE KeyInputs)
  /\ callRet = <<>>
  /\ OrchIdle /\ ParseIdle /\ ValidateIdle /\ RpcIdle

CallParseDate ==
  /\ callFn = "parseDate" /\ callRet = <<>>
  /\ callRet' = <<parseDate(callArg)>>
  /\ UNCHANGED <<callFn, callArg, orchVars, parseVars, validateVars, rpcVars>>

CallValidateRecord ==
  /\ callFn = "ValidateRecord" /\ callRet = <<>>
  /\ callRet' = <<ValidateRecord(callArg)>>
  /\ UNCHANGED <<callFn, callArg, orchVars, parseVars, validateVars, rpcVars>>

CallConvertToSimpleRecord ==
  /\ callFn = "ConvertToSimpleRecord" /\ callRet = <<>>
  /\ callRet' = <<ConvertToSimpleRecord(callArg)>>
  /\ UNCHANGED <<callFn, callArg, orchVars, parseVars, validateVars, rpcVars>>

CallParseAmount ==
  /\ callFn = "parseAmount" /\ callRet = <<>>
  /\ callRet' = <<parseAmount(callArg)>>
  /\ UNCHANGED <<callFn, callArg, orchVars, parseVars, validateVars, rpcVars>>

CallGetFieldSafe ==
  /\ callFn = "getFieldSafe" /\ callRet = <<>>
  /\ callRet' = <<getFieldSafe(callArg[1], callArg[2])>>
  /\ UNCHANGED <<callFn, callArg, orchVars, parseVars, validateVars, rpcVars>>

\* The call ends in the panic of getFieldSafe or returns an integer.
CallParseVehicleClass ==
  /\ callFn = "ParseVehicleClass" /\ callRet = <<>>
  /\ callRet' = <<[panic |-> getFieldSafe(callArg[1], callArg[2]) = Panic,
                   ret |-> <<ParseVehicleClass(callArg[1], callArg[2])>>]>>
  /\ UNCHANGED <<callFn, callArg, orchVars, parseVars, validateVars, rpcVars>>

\* The key of each record of a pair.
CallCreateDuplicateKey ==
  /\ callFn = "CreateDuplicateKey" /\ callRet = <<>>
  /\ callRet' = <<ProcessKey(callArg[1]), ProcessKey(callArg[2])>>
  /\ UNCHANGED <<callFn, callArg, orchVars, parseVars, validateVars, rpcVars>>

NextCalls ==
  \/ CallParseDate
  \/ CallValidateRecord
  \/ CallConvertToSimpleRecord
  \/ CallParseAmount
  \/ CallGetFieldSafe
  \/ CallParseVehicleClass
  \/ CallCreateDuplicateKey

SpecCalls == InitCalls /\ [][NextCalls]_vars

\* ------------------------------------------------- ValidateCSVData
\* The duplicate key of ValidateCSVData: "%s_%s_%s_%s_%d".
ValidateKey(rec) ==
  rec.EntryDate \o <<"_">> \o rec.EntryTime \o <<"_">> \o
  rec.ExitDate \o <<"_">> \o rec.ExitTime \o <<"_">> \o IntToStr(rec.ETCAmount)

\* Mutant: a key that repeats is counted once, however often it repeats.
NextDuplicateCount_OncePerKey(dm, cnt, k) ==
  IF k \in DOMAIN dm /\ dm[k] = 1 THEN cnt + 1 ELSE cnt

\* duplicateCount after a record of key k.
NextDuplicateCount(dm, cnt, k) == IF k \in DOMAIN dm THEN cnt + 1 ELSE cnt

\* duplicateMap after a record of key k.
NextDuplicateMap(dm, k) ==
  [x \in DOMAIN dm \cup {k} |->
     IF x = k THEN (IF k \in DOMAIN dm THEN dm[k] + 1 ELSE 1) ELSE dm[x]]

\* The LineNumber of the validation error of the record at 0-based index idx.
ErrorLine(idx) == idx + 2

\* The validation error appended for a record that fails ValidateRecord;
\* RecordData is the record, which %v prints.
RecordError(idx, rec) ==
  [LineNumber |-> ErrorLine(idx), Field |-> "", Message |-> ValidateRecord(rec),
   RecordData |-> rec]

\* The single error of the response to a parse failure.
ParseFailureError(msg) ==
  [LineNumber |-> 0, Field |-> "csv", Message |-> msg, RecordData |-> <<>>]

\* Mutant: duplicates make the data invalid too.
IsValidOf_NoDuplicates(errs, dups) == Len(errs) = 0 /\ dups = 0

\* IsValid of the response after the record loop.
IsValidOf(errs, dups) == Len(errs) = 0

\* Row15 on another card.
Row15Card2 == [Row15 EXCEPT ![14] = Card2]

\* Entry of ValidateCSVData; the reader is strings.NewReader(req.CsvData).
InitValidate ==
  /\ validatorOk \in BOOLEAN
  /\ reader \in {"bad", "ok"}
  /\ csvRows \in (IF reader = "ok"
                    THEN SeqsUpTo(RowPool \cup {Row15Card2}, MaxRows) ELSE {<<>>})
  /\ vpc = "request" /\ vi = 0
  /\ duplicateMap = EmptyDuplicateMap /\ duplicateCount = 0
  /\ validationErrors = <<>> /\ vResponse = <<>> /\ vError = ""
  /\ ppc = "idle" /\ headerMap = EmptyHeaderMap /\ startIndex = 0 /\ rowIdx = 0
  /\ etcRecords = <<>> /\ parseErr = ""
  /\ OrchIdle /\ CallIdle /\ RpcIdle

\* ValidateValidateCSVDataRequest fails: return nil, err.
ValidateRejects ==
  /\ vpc = "request" /\ ~validatorOk
  /\ vError' = "InvalidArgument"
  /\ vpc' = "done"
  /\ UNCHANGED <<validatorOk, vi, duplicateMap, duplicateCount, validationErrors,
                 vResponse>>
  /\ UNCHANGED <<orchVars, parseVars, callVars, rpcVars>>

\* The request passes: s.parser.Parse(reader) is called.
ValidateCallsParse ==
  /\ vpc = "request" /\ validatorOk
  /\ vpc' = "parse"
  /\ ppc' = "start"
  /\ UNCHANGED <<validatorOk, vi, duplicateMap, duplicateCount, validationErrors,
                 vResponse, vError>>
  /\ UNCHANGED <<reader, csvRows, headerMap, startIndex, rowIdx, etcRecords,
                 parseErr>>
  /\ UNCHANGED <<orchVars, callVars, rpcVars>>

\* Parse returned an error: the response of an invalid CSV.
ValidateParseFailed ==
  /\ vpc = "parse" /\ ppc = "done" /\ parseErr # "nil"
  /\ vResponse' = <<[IsValid |-> FALSE,
                      Errors |-> <<ParseFailureError(parseErr)>>,
                      DuplicateCount |-> 0, TotalRecords |-> 0]>>
  /\ vError' = "nil"
  /\ vpc' = "done"
  /\ UNCHANGED <<validatorOk, vi, duplicateMap, duplicateCount, validationErrors>>
  /\ UNCHANGED <<orchVars, parseVars, callVars, rpcVars>>

\* Parse returned records: the record loop starts.
ValidateBeginsLoop ==
  /\ vpc = "parse" /\ ppc = "done" /\ parseErr = "nil"
  /\ duplicateMap' = EmptyDuplicateMap
  /\ duplicateCount' = 0
  /\ vi' = 0
  /\ vpc' = "loop"
  /\ UNCHANGED <<validatorOk, validationErrors, vResponse, vError>>
  /\ UNCHANGED <<orchVars, parseVars, callVars, rpcVars>>

\* One pass of the record loop: the duplicate bookkeeping, then ValidateRecord.
ValidateOneRecord ==
  /\ vpc = "loop" /\ vi < Len(etcRecords)
  /\ LET rec == etcRecords[vi + 1]
          k   == ValidateKey(rec)
     IN  /\ duplicateCount' = NextDuplicateCount(duplicateMap, duplicateCount, k)
         /\ duplicateMap' = NextDuplicateMap(duplicateMap, k)
         /\ validationErrors' =
              IF ValidateRecord(rec) # "nil"
                THEN Append(validationErrors, RecordError(vi, rec))
                ELSE validationErrors
  /\ vi' = vi + 1
  /\ UNCHANGED <<validatorOk, vpc, vResponse, vError>>
  /\ UNCHANGED <<orchVars, parseVars, callVars, rpcVars>>

\* The loop is over: the response.
ValidateReturns ==
  /\ vpc = "loop" /\ vi = Len(etcRecords)
  /\ vResponse' = <<[IsValid |-> IsValidOf(validationErrors, duplicateCount),
                      Errors |-> validationErrors,
                      DuplicateCount |-> duplicateCount,
                      TotalRecords |-> Len(etcRecords)]>>
  /\ vError' = "nil"
  /\ vpc' = "done"
  /\ UNCHANGED <<validatorOk, vi, duplicateMap, duplicateCount, validationErrors>>
  /\ UNCHANGED <<orchVars, parseVars, callVars, rpcVars>>

NextValidate ==
  \/ ValidateRejects
  \/ ValidateCallsParse
  \/ ParseReadFails
  \/ ParseEmpty
  \/ DetectHeader
  \/ ParseNoData
  \/ ParseBeginRows
  \/ ParseDropRow
  \/ ParseKeepRow
  \/ ParseReturn
  \/ ValidateParseFailed
  \/ ValidateBeginsLoop
  \/ ValidateOneRecord
  \/ ValidateReturns

SpecValidate == InitValidate /\ [][NextValidate]_vars

\* ------------------------------------ ProcessCSVFile, ProcessCSVData
\* The errors s.parser.ParseFile / s.parser.Parse can return to the handler.
ParseErrors(r) ==
  {"failed to read CSV", "CSV file is empty", "no data records found"}
    \cup (IF r = "ProcessCSVFile" THEN {"failed to open file"} ELSE {})

\* What ProcessCSVFile returns on a parse error: a response, no error.
FileParseFailure(e) ==
  [response |-> <<[Success |-> FALSE,
                   Message |-> <<"Failed to parse CSV file", e>>,
                   Stats |-> InitialStats(0),
                   Errors |-> <<e>>]>>,
   error |-> "nil"]

\* Mutant: ProcessCSVData answers a parse error as ProcessCSVFile does.
DataParseFailure_AsFile(e) == FileParseFailure(e)

\* What ProcessCSVData returns on a parse error: no response, InvalidArgument.
DataParseFailure(e) ==
  [response |-> <<>>, error |-> <<"InvalidArgument", "invalid CSV format", e>>]

\* Mutant: a run with any failed record is not a success.
SuccessOf_NoErrors(st) == st.ErrorRecords = 0

\* Success of the response: stats.SavedRecords > 0.
SuccessOf(st) == st.SavedRecords > 0

\* Entry of ProcessCSVFile / ProcessCSVData.
InitProcess ==
  /\ rpc \in {"ProcessCSVFile", "ProcessCSVData"}
  /\ rpcPc = "request" /\ rpcResponse = <<>> /\ rpcError = ""
  /\ validatorOk \in BOOLEAN
  /\ skipDuplicates \in BOOLEAN
  /\ parserKind \in {"etc", "mock"}
  /\ dbClientNil \in BOOLEAN
  /\ ctxErr \in BOOLEAN
  /\ records = <<>> /\ pc = "idle" /\ i = 0
  /\ stats = InitialStats(0) /\ errors = <<>> /\ processedKeys = {}
  /\ convertCalls = <<>> /\ storeCalls = <<>> /\ parked = <<>>
  /\ vpc = "idle" /\ vi = 0
  /\ duplicateMap = EmptyDuplicateMap /\ duplicateCount = 0
  /\ validationErrors = <<>> /\ vResponse = <<>> /\ vError = ""
  /\ ParseIdle /\ CallIdle

\* The request validation fails: return nil, err.
RpcRejects ==
  /\ rpcPc = "request" /\ ~validatorOk
  /\ rpcError' = "request rejected"
  /\ rpcPc' = "done"
  /\ UNCHANGED <<rpc, rpcResponse>>
  /\ UNCHANGED <<orchVars, parseVars, callVars, validateVars>>

\* The request passes: the parser is called.
RpcAccepts ==
  /\ rpcPc = "request" /\ validatorOk
  /\ rpcPc' = "parse"
  /\ UNCHANGED <<rpc, rpcResponse, rpcError>>
  /\ UNCHANGED <<orchVars, parseVars, callVars, validateVars>>

\* The parser returns an error.
RpcParseFails ==
  /\ rpcPc = "parse"
  /\ \E e \in ParseErrors(rpc) :
       LET out == IF rpc = "ProcessCSVFile" THEN FileParseFailure(e)
                  ELSE DataParseFailure(e)
       IN  /\ parseErr' = e
           /\ rpcResponse' = out.response
           /\ rpcError' = out.error
  /\ rpcPc' = "done"
  /\ UNCHANGED <<reader, csvRows, ppc, headerMap, startIndex, rowIdx, etcRecords>>
  /\ UNCHANGED rpc
  /\ UNCHANGED <<orchVars, callVars, validateVars>>

\* The parser returns records: processRecords is entered.
RpcParseSucceeds ==
  /\ rpcPc = "parse"
  /\ \E recs \in SeqsUpTo(RecordPool, MaxRpcRecords) :
       /\ etcRecords' = recs
       /\ records' = recs
       /\ stats' = InitialStats(Len(recs))
  /\ parseErr' = "nil"
  /\ pc' = "loop" /\ i' = 0
  /\ errors' = <<>> /\ processedKeys' = {}
  /\ rpcPc' = "process"
  /\ UNCHANGED <<skipDuplicates, parserKind, dbClientNil, ctxErr, convertCalls,
                 storeCalls>>
  /\ UNCHANGED <<reader, csvRows, ppc, headerMap, startIndex, rowIdx>>
  /\ UNCHANGED <<rpc, rpcResponse, rpcError>>
  /\ UNCHANGED <<parked, callVars, validateVars>>

\* processRecords has returned: the response.
RpcResponds ==
  /\ rpcPc = "process" /\ pc = "done"
  /\ rpcResponse' = <<[Success |-> SuccessOf(stats),
                        Message |-> <<IF rpc = "ProcessCSVFile"
                                        THEN "Processed records from file"
                                        ELSE "Processed records",
                                      stats.TotalRecords>>,
                        Stats |-> stats,
                        Errors |-> errors]>>
  /\ rpcError' = "nil"
  /\ rpcPc' = "done"
  /\ UNCHANGED rpc
  /\ UNCHANGED <<orchVars, parseVars, callVars, validateVars>>

NextProcess ==
  \/ RpcRejects
  \/ RpcAccepts
  \/ RpcParseFails
  \/ RpcParseSucceeds
  \/ Cancel
  \/ ObserveCancel
  \/ SkipDuplicate
  \/ BeginRecord
  \/ ConvertFails
  \/ ConvertSucceeds
  \/ SaveFails
  \/ SaveSucceeds
  \/ Return
  \/ RpcResponds

SpecProcess == InitProcess /\ [][NextProcess]_vars

\* ------------------------------- ValidateCSVData, then ProcessCSVData
\* ProcessCSVData on the CsvData that ValidateCSVData has just answered for:
\* Parse returns the same records, and processRecords is entered with them.
ProcessSameData ==
  /\ vpc = "done" /\ vError = "nil" /\ parseErr = "nil"
  /\ pc = "idle"
  /\ records' = etcRecords
  /\ stats' = InitialStats(Len(etcRecords))
  /\ skipDuplicates' \in BOOLEAN
  /\ pc' = "loop" /\ i' = 0
  /\ errors' = <<>> /\ processedKeys' = {}
  /\ UNCHANGED <<parserKind, dbClientNil, ctxErr, convertCalls, storeCalls>>
  /\ UNCHANGED notOrchVars

\* The two handlers in turn on one input, with a store that accepts every
\* record and a context that is not cancelled.
NextAgree ==
  \/ NextValidate
  \/ ProcessSameData
  \/ SkipDuplicate
  \/ BeginRecord
  \/ ConvertFails
  \/ ConvertSucceeds
  \/ SaveSucceeds
  \/ Return

SpecAgree == InitValidate /\ [][NextAgree]_vars

\* --------------------------------- two calls of processRecords at once
\* The locals of the call that is running.
Locals ==
  [records |-> records, skipDuplicates |-> skipDuplicates, ctxErr |-> ctxErr,
   pc |-> pc, i |-> i, stats |-> stats, errors |-> errors,
   processedKeys |-> processedKeys, convertCalls |-> convertCalls,
   storeCalls |-> storeCalls]

\* The locals of a call at its entry.
EntryLocals(recs, skip) ==
  [records |-> recs, skipDuplicates |-> skip, ctxErr |-> FALSE,
   pc |-> "loop", i |-> 0, stats |-> InitialStats(Len(recs)), errors |-> <<>>,
   processedKeys |-> {}, convertCalls |-> <<>>, storeCalls |-> <<>>]

\* Mutant: the dedup map is a field of the service, shared by its calls.
OwnProcessedKeys_Shared(own, other) == own \cup other

\* The processedKeys a call goes on with after another call has run: its own
\* map, made at its entry (processedKeys := make(map[string]bool)).
OwnProcessedKeys(own, other) == own

\* Two requests have reached processRecords on one service, the one
\* NewDataProcessorService builds around a store client, each with its own
\* records, flag and context.
InitTwoRuns ==
  /\ parserKind = "etc"
  /\ dbClientNil = FALSE
  /\ records \in SeqsUpTo({RecA, RecBad}, MaxRpcRecords)
  /\ skipDuplicates \in BOOLEAN
  /\ ctxErr = FALSE
  /\ pc = "loop" /\ i = 0
  /\ stats = InitialStats(Len(records))
  /\ errors = <<>> /\ processedKeys = {}
  /\ convertCalls = <<>> /\ storeCalls = <<>>
  /\ parked \in {EntryLocals(recs, skip) :
                   recs \in SeqsUpTo({RecA, RecBad}, MaxRpcRecords),
                   skip \in BOOLEAN}
  /\ ParseIdle /\ CallIdle /\ ValidateIdle /\ RpcIdle

\* The scheduler takes the running call off and lets the other call run.
SwitchRuns ==
  /\ parked # <<>>
  /\ parked' = Locals
  /\ records' = parked.records
  /\ skipDuplicates' = parked.skipDuplicates
  /\ ctxErr' = parked.ctxErr
  /\ pc' = parked.pc
  /\ i' = parked.i
  /\ stats' = parked.stats
  /\ errors' = parked.errors
  /\ processedKeys' = OwnProcessedKeys(parked.processedKeys, processedKeys)
  /\ convertCalls' = parked.convertCalls
  /\ storeCalls' = parked.storeCalls
  /\ UNCHANGED <<parserKind, dbClientNil>>
  /\ UNCHANGED <<parseVars, callVars, validateVars, rpcVars>>

NextTwoRuns ==
  \/ SwitchRuns
  \/ Cancel
  \/ ObserveCancel
  \/ SkipDuplicate
  \/ BeginRecord
  \/ ConvertFails
  \/ ConvertSucceeds
  \/ SaveFails
  \/ SaveSucceeds
  \/ Return

SpecTwoRuns == InitTwoRuns /\ [][NextTwoRuns]_vars

\* ------------------------------------------- processRecords: properties
Range(f) == {f[k] : k \in DOMAIN f}

\* What the call logs say of the record at 0-based index j.
ConvFailed(j) == <<j, FALSE>> \in Range(convertCalls)
ConvOk(j) == <<j, TRUE>> \in Range(convertCalls)
StoreFailed(j) == <<j, FALSE>> \in Range(storeCalls)
StoreOk(j) == <<j, TRUE>> \in Range(storeCalls)

\* The record at index j was passed over without a conversion attempt.
WasSkipped(j) == j < i /\ ~ConvFailed(j) /\ ~ConvOk(j)

\* The record at index j was converted and stored (or there is no client).
WasSaved(j) == j < i /\ ConvOk(j) /\ (dbClientNil \/ StoreOk(j))

IsCancelDiag(e) == e[1] = "Processing cancelled at record"

\* The last diagnostic reports a cancellation.
CancelObserved == errors # <<>> /\ IsCancelDiag(errors[Len(errors)])

\* The index at which cancellation was observed.
CancelIndex == errors[Len(errors)][2]

\* C1: after processRecords returns, saved + skipped + errored = total,
\* also when cancellation was observed after earlier records had errored.
C1_CountsSumToTotal ==
  pc = "done" =>
    stats.SavedRecords + stats.SkippedRecords + stats.ErrorRecords
      = stats.TotalRecords

\* C2: with the context cancelled at the check for record 0 of n >= 1 records,
\* processRecords returns errored = n = total, saved = 0, skipped = 0 and the
\* diagnostics hold the entry naming the cancellation at record 0.
C2_CancelledBeforeFirstRecord ==
  [][(pc = "loop" /\ i = 0 /\ ctxErr /\ Len(records) >= 1) =>
       /\ pc' = "done"
       /\ stats' = [TotalRecords |-> Len(records), SavedRecords |-> 0,
                    SkippedRecords |-> 0, ErrorRecords |-> Len(records)]
       /\ <<"Processing cancelled at record", 0>> \in Range(errors')]_vars

C2_Witness ==
  /\ pc = "done" /\ i = 0 /\ ctxErr
  /\ Len(records) >= 2
  /\ stats.ErrorRecords = Len(records) /\ stats.SavedRecords = 0
  /\ errors = <<<<"Processing cancelled at record", 0>>>>

\* C3: once cancellation is observed at the check for record i, no conversion
\* and no store call exists for record i or a later one, the loop has stopped,
\* and no counter, diagnostic or call changes afterwards.
C3_NothingAfterCancellation ==
  /\ [](CancelObserved =>
          /\ pc = "done"
          /\ CancelIndex = i
          /\ \A k \in 1..Len(convertCalls) : convertCalls[k][1] < CancelIndex
          /\ \A k \in 1..Len(storeCalls) : storeCalls[k][1] < CancelIndex)
  /\ [][CancelObserved =>
          UNCHANGED <<stats, errors, i, convertCalls, storeCalls, processedKeys>>]_vars

C3_Witness ==
  /\ CancelObserved /\ pc = "done"
  /\ CancelIndex = 2 /\ Len(records) = 4
  /\ Len(convertCalls) = 2 /\ Len(storeCalls) = 1

\* C4: with skipDuplicates, no cancellation and every conversion and store
\* succeeding, n records sharing one key give saved = 1, skipped = n - 1,
\* total = n.
C4_OneKeySavedOnce ==
  (/\ pc = "done" /\ skipDuplicates /\ errors = <<>>
   /\ Len(records) >= 1
   /\ \A j \in 1..Len(records) : ProcessKey(records[j]) = ProcessKey(records[1]))
  => /\ stats.SavedRecords = 1
     /\ stats.SkippedRecords = Len(records) - 1
     /\ stats.TotalRecords = Len(records)

C4_Witness ==
  /\ pc = "done" /\ skipDuplicates /\ errors = <<>>
  /\ Len(records) = 5
  /\ \A j \in 1..5 : ProcessKey(records[j]) = ProcessKey(records[1])
  /\ stats.SavedRecords = 1 /\ stats.SkippedRecords = 4 /\ stats.TotalRecords = 5

\* C5: with skipDuplicates a record is skipped exactly when an earlier record
\* of the run with the same key was saved; a key is processed only after a
\* successful save, so the twin of a failed record is attempted again; without
\* skipDuplicates nothing is skipped.
C5_SkippedIffEarlierSaved ==
  /\ \A j \in 0..(i - 1) :
       WasSkipped(j) <=>
         /\ skipDuplicates
         /\ \E k \in 0..(j - 1) :
              /\ ProcessKey(records[k + 1]) = ProcessKey(records[j + 1])
              /\ WasSaved(k)
  /\ processedKeys = {ProcessKey(records[k + 1]) : k \in {j \in 0..(i - 1) : WasSaved(j)}}
  /\ stats.SkippedRecords = Cardinality({j \in 0..(i - 1) : WasSkipped(j)})
  /\ ~skipDuplicates => stats.SkippedRecords = 0

C5_Witness ==
  /\ pc = "done" /\ skipDuplicates
  /\ Len(records) = 4
  /\ \A j \in 1..4 : ProcessKey(records[j]) = ProcessKey(records[1])
  /\ ConvFailed(0) /\ StoreFailed(1) /\ WasSaved(2) /\ WasSkipped(3)

\* C6: a failed conversion of record i makes no store call for it, adds exactly
\* 1 to errored and goes on with record i + 1; a failed store adds exactly 1 to
\* errored, leaves saved and the processed keys alone and goes on with record
\* i + 1; without cancellation the loop ends only after the last record.
C6_FailureDoesNotAbort ==
  /\ [][/\ convertCalls' = Append(convertCalls, <<i, FALSE>>) =>
            /\ storeCalls' = storeCalls
            /\ stats' = [stats EXCEPT !.ErrorRecords = @ + 1]
            /\ processedKeys' = processedKeys
            /\ i' = i + 1 /\ pc' = "loop"
        /\ storeCalls' = Append(storeCalls, <<i, FALSE>>) =>
            /\ stats' = [stats EXCEPT !.ErrorRecords = @ + 1]
            /\ processedKeys' = processedKeys
            /\ i' = i + 1 /\ pc' = "loop"]_vars
  /\ [](/\ \A j \in 0..Len(records) : ConvFailed(j) => ~StoreFailed(j) /\ ~StoreOk(j)
        /\ (pc = "done" /\ ~CancelObserved) => i = Len(records))

C6_Witness ==
  /\ pc = "done" /\ ~CancelObserved
  /\ Len(records) = 3
  /\ ConvFailed(0) /\ StoreFailed(1) /\ WasSaved(2)
  /\ stats.ErrorRecords = 2 /\ stats.SavedRecords = 1

\* C7: the diagnostics are in record order: one per failed conversion and one
\* per failed save, by increasing record number, then at most one cancellation
\* diagnostic, which is last; saved and skipped records add none.
C7_DiagnosticsInRecordOrder ==
  LET m == IF CancelObserved THEN Len(errors) - 1 ELSE Len(errors) IN
    /\ \A k \in 1..Len(errors) : IsCancelDiag(errors[k]) => k = Len(errors)
    /\ \A k \in 1..m : \A l \in 1..m : k < l => errors[k][2] < errors[l][2]
    /\ \A j \in 0..Len(records) :
         /\ ConvFailed(j) <=> <<"Record", j + 1, "conversion failed">> \in Range(errors)
         /\ StoreFailed(j) <=> <<"Record", j + 1, "save failed">> \in Range(errors)
    /\ m = Cardinality({j \in 0..Len(records) : ConvFailed(j) \/ StoreFailed(j)})

C7_Witness ==
  /\ pc = "done"
  /\ errors = <<<<"Record", 1, "conversion failed">>, <<"Record", 3, "save failed">>,
                <<"Processing cancelled at record", 3>>>>
  /\ stats.SavedRecords = 1

\* --------------------------------------------------- Parse: properties
\* Parse has returned after reading the rows.
ParseDone == ppc = "done" /\ reader = "ok"

\* C8: Parse fails with "CSV file is empty" on zero rows, with "no data records
\* found" when the only row is a header, and returns no error for a header
\* followed by at least one data row; zero rows report the empty input, not
\* the missing data rows.
C8_StructuralErrors ==
  ParseDone =>
    /\ Len(csvRows) = 0 => parseErr = "CSV file is empty"
    /\ (Len(csvRows) = 1 /\ IsHeaderRow(csvRows[1])) =>
         parseErr = "no data records found"
    /\ (Len(csvRows) >= 2 /\ IsHeaderRow(csvRows[1])) => parseErr = "nil"

C8_Witness ==
  /\ ParseDone
  /\ Len(csvRows) = 1 /\ IsHeaderRow(csvRows[1])
  /\ parseErr = "no data records found" /\ etcRecords = <<>>

\* C9: in header mode the output holds exactly one record per row after the
\* header, in input order, whether or not the record passes ValidateRecord and
\* whether or not the row is as long as the header.
C9_HeaderModeKeepsEveryRow ==
  (/\ ppc \in {"rows", "done"} /\ reader = "ok"
   /\ Len(csvRows) >= 2 /\ IsHeaderRow(csvRows[1]))
  => /\ ppc = "done" => (parseErr = "nil" /\ Len(etcRecords) = Len(csvRows) - 1)
     /\ ppc = "rows" => Len(etcRecords) = rowIdx - 1
     /\ \A k \in 1..Len(etcRecords) :
          etcRecords[k] = parseWithHeaders(csvRows[k + 1], BuildHeaderMap(csvRows[1]))

C9_Witness ==
  /\ ParseDone /\ parseErr = "nil"
  /\ Len(csvRows) = 3 /\ IsHeaderRow(csvRows[1])
  /\ Len(etcRecords) = 2
  /\ Len(csvRows[2]) < Len(csvRows[1])
  /\ ValidateRecord(etcRecords[1]) = "card number cannot be empty"
  /\ ValidateRecord(etcRecords[2]) = "invalid entry date"

\* The rows of at least n cells, in order.
RECURSIVE RowsOfAtLeast(_, _)
RowsOfAtLeast(rows, n) ==
  IF rows = <<>> THEN <<>>
  ELSE (IF Len(Head(rows)) >= n THEN <<Head(rows)>> ELSE <<>>)
         \o RowsOfAtLeast(Tail(rows), n)

\* C10: in positional mode the output holds exactly the rows of at least 13
\* cells, in input order, mapped by position; shorter rows are dropped without
\* an error; a row of exactly 13 cells is kept with an empty card number and
\* empty notes.
C10_PositionalKeepsRowsOf13 ==
  (/\ ParseDone /\ Len(csvRows) >= 1 /\ ~IsHeaderRow(csvRows[1]))
  => LET kept == RowsOfAtLeast(csvRows, 13) IN
       /\ parseErr = "nil"
       /\ Len(etcRecords) = Len(kept)
       /\ \A k \in 1..Len(kept) :
            /\ etcRecords[k] = parsePositional(kept[k])
            /\ etcRecords[k].EntryDate = kept[k][1]
            /\ Len(kept[k]) = 13 =>
                 (etcRecords[k].CardNumber = <<>> /\ etcRecords[k].Notes = <<>>)

C10_Witness ==
  /\ ParseDone /\ parseErr = "nil"
  /\ Len(csvRows) = 3 /\ ~IsHeaderRow(csvRows[1])
  /\ Len(csvRows[1]) = 12 /\ Len(csvRows[2]) = 13 /\ Len(csvRows[3]) = 15
  /\ Len(etcRecords) = 2
  /\ etcRecords[1].CardNumber = <<>> /\ etcRecords[1].Notes = <<>>
  /\ etcRecords[2].CardNumber # <<>>

\* ------------------------------------------- parser functions: properties
\* The named function has returned.
Returned(fn) == callFn = fn /\ callRet # <<>>

\* C11: ConvertToSimpleRecord takes the date of the exit date when that
\* parses, whatever the entry date is; else the date of the entry date when
\* that parses, also when the exit date is empty; else it fails and returns
\* no record.
C11_ExitDateElseEntryDate ==
  Returned("ConvertToSimpleRecord") =>
    LET ex == parseDate(callArg.ExitDate)
        en == parseDate(callArg.EntryDate)
        r  == callRet[1]
    IN  /\ ex.ok => (r.ok /\ r.rec.Date = ex.date)
        /\ (~ex.ok /\ en.ok) => (r.ok /\ r.rec.Date = en.date)
        /\ (~ex.ok /\ ~en.ok) => (~r.ok /\ r.rec = <<>>)

C11_Witness ==
  /\ Returned("ConvertToSimpleRecord")
  /\ callArg.ExitDate = D250901 /\ callArg.EntryDate = D240115
  /\ callRet[1].ok
  /\ callRet[1].rec.Date.year = 2025 /\ callRet[1].rec.Date.month = 9
  /\ callRet[1].rec.Date.day = 1

\* C12: for every record ConvertToSimpleRecord accepts the amount is not
\* negative, is the magnitude of the ETC amount when that is not 0 and of the
\* normal amount otherwise, for every int, the smallest included.
C12_AmountIsMagnitude ==
  (Returned("ConvertToSimpleRecord") /\ callRet[1].ok) =>
    LET fee  == callArg.ETCAmount
        base == callArg.NormalAmount
        src  == IF fee # 0 THEN fee ELSE base
        amt  == callRet[1].rec.Amount
    IN  /\ amt >= 0
        /\ amt = (IF src < 0 THEN 0 - src ELSE src)

\* The components that are no integer text: letters, the empty text, and a
\* number beyond the range of int.
NonIntTexts == {<<"x", "x">>, <<>>, <<"9", "9", "9", "9", "9", "9">>}

\* The components of the text handed to parseDate, when it was put together
\* from three: <<year, month, day>>.
ArgComponents ==
  CHOOSE c \in YearTexts \X MonthTexts \X DayTexts : callArg = Join3(c[1], c[2], c[3])

\* The text handed to parseDate is three components joined by "/".
ThreeComponents ==
  \E c \in YearTexts \X MonthTexts \X DayTexts : callArg = Join3(c[1], c[2], c[3])

\* The number a component of decimal digits (after an optional +) writes.
ComponentValue(c) == DigitsVal(IF Head(c) = "+" THEN Tail(c) ELSE c)

\* The pivot rule: 0..49 is 2000..2049, 50..99 is 1950..1999, 100 and more
\* is itself.
Pivot(y) == IF y < 50 THEN 2000 + y ELSE IF y < 100 THEN 1900 + y ELSE y

\* The result of parseDate is midnight UTC.
MidnightUTC(t) ==
  t.hour = 0 /\ t.min = 0 /\ t.sec = 0 /\ t.nsec = 0 /\ t.loc = "UTC"

C20_ValidateRecordOrder ==
  Returned("ValidateRecord") =>
    LET noCard   == callArg.CardNumber = <<>>
        badEntry == callArg.EntryDate # <<>> /\ ~parseDate(callArg.EntryDate).ok
        badExit  == callArg.ExitDate # <<>> /\ ~parseDate(callArg.ExitDate).ok
    IN  /\ callRet[1] # "nil" <=> (noCard \/ badEntry \/ badExit)
        /\ noCard => callRet[1] = "card number cannot be empty"
        /\ (~noCard /\ badEntry) => callRet[1] = "invalid entry date"
        /\ (~noCard /\ ~badEntry /\ badExit) => callRet[1] = "invalid exit date"

C20_Witness ==
  /\ Returned("ValidateRecord")
  /\ callArg.CardNumber = <<>>
  /\ callArg.EntryDate = DNonNumeric /\ callArg.ExitDate = DNonNumeric
  /\ callRet[1] = "card number cannot be empty"

\* ------------------------------------------- ValidateCSVData: properties
\* ValidateCSVData has returned a response after a successful parse.
ValidatedRecords == vpc = "done" /\ vResponse # <<>> /\ parseErr = "nil"

\* The 1-based indices of the records whose key an earlier record has.
RepeatedRecords ==
  {j \in 1..Len(etcRecords) :
     \E k \in 1..(j - 1) : ValidateKey(etcRecords[k]) = ValidateKey(etcRecords[j])}

\* C13: the response of ValidateCSVData carries totalRecords = the number of
\* parsed records and duplicateCount = the number of records whose key an
\* earlier record of the pass has, which is the sum over the keys of
\* (occurrences - 1); three identical records give 2 and 3.
C13_DuplicateCount ==
  ValidatedRecords =>
    LET keys == {ValidateKey(etcRecords[j]) : j \in 1..Len(etcRecords)} IN
      /\ vResponse[1].TotalRecords = Len(etcRecords)
      /\ vResponse[1].DuplicateCount = Cardinality(RepeatedRecords)
      /\ vResponse[1].DuplicateCount = Len(etcRecords) - Cardinality(keys)
      /\ \A k \in keys :
           duplicateMap[k] =
             Cardinality({j \in 1..Len(etcRecords) : ValidateKey(etcRecords[j]) = k})

C13_Witness ==
  /\ ValidatedRecords
  /\ Len(etcRecords) = 3
  /\ etcRecords[1] = etcRecords[2] /\ etcRecords[2] = etcRecords[3]
  /\ vResponse[1].DuplicateCount = 2 /\ vResponse[1].TotalRecords = 3

\* The 1-based row numbers of the rows Parse keeps, in order: every row after
\* a header, else every row of at least 13 cells.
KeptRowNumbers ==
  LET hdr == IsHeaderRow(csvRows[1]) IN
    SelectSeq([k \in 1..Len(csvRows) |-> k],
              LAMBDA k : IF hdr THEN k > 1 ELSE Len(csvRows[k]) >= 13)

\* The 0-based indices of the records that fail ValidateRecord, in order.
FailingRecords ==
  SelectSeq([k \in 1..Len(etcRecords) |-> k - 1],
            LAMBDA j : ValidateRecord(etcRecords[j + 1]) # "nil")

\* C14: each validation error of ValidateCSVData carries the 1-based number of
\* the input row its record came from: record index + 2 under a header, and
\* no header offset when the input has no header row.
C14_LineNumberIsInputRow ==
  ValidatedRecords =>
    /\ Len(vResponse[1].Errors) = Len(FailingRecords)
    /\ \A k \in 1..Len(FailingRecords) :
         vResponse[1].Errors[k].LineNumber = KeptRowNumbers[FailingRecords[k] + 1]

\* C15: ValidateCSVData makes no call of the storage client; after a
\* successful parse isValid holds exactly when no parsed record fails
\* ValidateRecord, duplicates or not; after a parse failure the response is
\* isValid = false, one error at line 0 in field "csv", totalRecords = 0.
C15_ValidateOnly ==
  /\ storeCalls = <<>>
  /\ ValidatedRecords =>
       (vResponse[1].IsValid <=>
          \A j \in 1..Len(etcRecords) : ValidateRecord(etcRecords[j]) = "nil")
  /\ (vpc = "done" /\ ppc = "done" /\ parseErr # "nil") =>
       /\ vError = "nil"
       /\ vResponse # <<>>
       /\ ~vResponse[1].IsValid
       /\ vResponse[1].TotalRecords = 0
       /\ Len(vResponse[1].Errors) = 1
       /\ vResponse[1].Errors[1].LineNumber = 0
       /\ vResponse[1].Errors[1].Field = "csv"
       /\ vResponse[1].Errors[1].Message = parseErr
  /\ vpc = "done" => (vResponse # <<>> <=> ppc = "done")

C15_Witness ==
  /\ ValidatedRecords
  /\ vResponse[1].IsValid
  /\ vResponse[1].DuplicateCount = 1 /\ vResponse[1].TotalRecords = 2
  /\ storeCalls = <<>>

\* ------------------------- ProcessCSVFile, ProcessCSVData: properties
\* The handler has returned.
RpcDone == rpcPc = "done"

\* C16: once the parser has returned records, ProcessCSVFile and
\* ProcessCSVData return a response and a nil error whatever conversions,
\* saves or the context did; the response carries the stats and the
\* diagnostics of processRecords, and Success holds exactly when at least one
\* record was saved.
C16_ResponseAfterParse ==
  (RpcDone /\ parseErr = "nil") =>
    /\ rpcError = "nil"
    /\ rpcResponse # <<>>
    /\ rpcResponse[1].Stats = stats
    /\ rpcResponse[1].Errors = errors
    /\ rpcResponse[1].Success <=> (\E j \in 0..(Len(records) - 1) : WasSaved(j))

C16_Witness ==
  /\ RpcDone /\ parseErr = "nil"
  /\ Len(records) = 2
  /\ StoreFailed(0) /\ WasSaved(1)
  /\ rpcResponse[1].Success
  /\ rpcResponse[1].Stats.ErrorRecords = 1
  /\ rpcResponse[1].Errors = <<<<"Record", 1, "save failed">>>>

\* C17: when the parser returns an error no record is converted or stored;
\* ProcessCSVFile returns a nil error and a response with Success = false,
\* TotalRecords = 0 and the parse error as its Errors; ProcessCSVData returns
\* no response and an InvalidArgument error.
C17_ParseFailure ==
  (RpcDone /\ parseErr \notin {"", "nil"}) =>
    /\ convertCalls = <<>> /\ storeCalls = <<>>
    /\ rpc = "ProcessCSVFile" =>
         /\ rpcError = "nil"
         /\ rpcResponse # <<>>
         /\ ~rpcResponse[1].Success
         /\ rpcResponse[1].Stats.TotalRecords = 0
         /\ rpcResponse[1].Errors = <<parseErr>>
    /\ rpc = "ProcessCSVData" =>
         /\ rpcResponse = <<>>
         /\ rpcError # "nil" /\ rpcError[1] = "InvalidArgument"

C17_Witness ==
  /\ RpcDone /\ parseErr = "no data records found"
  /\ rpc = "ProcessCSVData"
  /\ rpcResponse = <<>>
  /\ rpcError = <<"InvalidArgument", "invalid CSV format", "no data records found">>

\* The text s without its commas.
WithoutCommas(s) == SelectSeq(s, LAMBDA c : c # ",")

\* The text after an optional sign.
Unsigned(t) == IF t # <<>> /\ t[1] \in {"-", "+"} THEN Tail(t) ELSE t

\* A text of an optional sign and one or more decimal digits.
IsSignedDigits(t) ==
  Unsigned(t) # <<>> /\ \A k \in 1..Len(Unsigned(t)) : IsDigit(Unsigned(t)[k])

\* C21: parseAmount removes every comma and parses the remainder as a signed
\* integer: "10,500" gives 10500 and "-1,000" gives -1000, every text that
\* is an optional sign and digits within the range of int once the commas
\* are gone gives its value, and the empty text, letters, a decimal and a
\* number beyond int give an error with the value 0.
C21_ParseAmount ==
  Returned("parseAmount") =>
    LET s == callArg
        r == callRet[1]
        t == WithoutCommas(s)
    IN /\ (s = <<"1", "0", ",", "5", "0", "0">>
             => r = [ok |-> TRUE, val |-> 10500])
       /\ (s = <<"-", "1", ",", "0", "0", "0">>
             => r = [ok |-> TRUE, val |-> 0 - 1000])
       /\ (s \in {<<>>, <<"a", "b", "c">>, <<"1", "2", ".", "5">>,
                   <<"9", "9", "9", "9", "9", "9">>}
             => r = [ok |-> FALSE, val |-> 0])
       /\ (~r.ok => r.val = 0)
       /\ (r.ok => IsSignedDigits(t))
       /\ (IsSignedDigits(t) /\ Len(Unsigned(t)) < Len(MaxIntDigits)
             => /\ r.ok
                /\ r.val = (IF t[1] = "-" THEN 0 - DigitsVal(Unsigned(t))
                            ELSE DigitsVal(Unsigned(t))))

\* parseAmount has returned -1000 for "-1,000".
C21_Witness ==
  /\ Returned("parseAmount")
  /\ callArg = <<"-", "1", ",", "0", "0", "0">>
  /\ callRet[1] = [ok |-> TRUE, val |-> 0 - 1000]

\* Cell n (from 1) of a row; the empty text when the row is shorter.
Cell(row, n) == IF n <= Len(row) THEN row[n] ELSE <<>>

\* The cell is empty or no amount text.
NotAmount(cell) == ~IsSignedDigits(WithoutCommas(cell))

\* C22: an empty or non-numeric vehicle-class, fee, base, discount or mileage
\* cell never fails Parse and never drops the row: in the header layout and in
\* the positional layout the attribute is 0 and the record is emitted with its
\* text fields as in the row.
C22_BadNumbersLeaveZero ==
  (/\ ParseDone /\ Len(csvRows) >= 1
   /\ (IsHeaderRow(csvRows[1]) => (csvRows[1] = HeaderRow /\ Len(csvRows) >= 2)))
  => /\ parseErr = "nil"
     /\ Len(etcRecords) = Len(KeptRowNumbers)
     /\ \A k \in 1..Len(KeptRowNumbers) :
          LET row == csvRows[KeptRowNumbers[k]]
              r   == etcRecords[k]
          IN IF IsHeaderRow(csvRows[1])
               THEN /\ NotAmount(Cell(row, 7)) => r.NormalAmount = 0
                    /\ NotAmount(Cell(row, 8)) => r.DiscountApplied = 0
                    /\ NotAmount(Cell(row, 9)) => r.ETCAmount = 0
                    /\ ~IsSignedDigits(Cell(row, 10)) => r.VehicleClass = 0
                    /\ r.Mileage = 0
                    /\ <<r.EntryDate, r.EntryTime, r.ExitDate, r.ExitTime,
                          r.EntryIC, r.ExitIC>>
                         = <<Cell(row, 1), Cell(row, 2), Cell(row, 3),
                             Cell(row, 4), Cell(row, 5), Cell(row, 6)>>
                    /\ <<r.VehicleNumber, r.CardNumber, r.Notes>>
                         = <<Cell(row, 11), Cell(row, 12), Cell(row, 13)>>
               ELSE /\ NotAmount(Cell(row, 8)) => r.ETCAmount = 0
                    /\ NotAmount(Cell(row, 9)) => r.NormalAmount = 0
                    /\ NotAmount(Cell(row, 10)) => r.DiscountApplied = 0
                    /\ NotAmount(Cell(row, 11)) => r.Mileage = 0
                    /\ ~IsSignedDigits(Cell(row, 12)) => r.VehicleClass = 0
                    /\ <<r.EntryDate, r.EntryTime, r.ExitDate, r.ExitTime,
                          r.EntryIC, r.ExitIC, r.RouteInfo>>
                         = <<Cell(row, 1), Cell(row, 2), Cell(row, 3),
                             Cell(row, 4), Cell(row, 5), Cell(row, 6),
                             Cell(row, 7)>>
                    /\ <<r.VehicleNumber, r.CardNumber, r.Notes>>
                         = <<Cell(row, 13), Cell(row, 14), Cell(row, 15)>>

\* Parse has mapped the row of bad numbers by position, after a good row:
\* every number of its record is 0 and its card number is kept.
C22_Witness ==
  /\ ParseDone /\ parseErr = "nil"
  /\ csvRows = <<Row15, RowBadNumbers>>
  /\ Len(etcRecords) = 2
  /\ etcRecords[2].ETCAmount = 0 /\ etcRecords[2].NormalAmount = 0
  /\ etcRecords[2].DiscountApplied = 0 /\ etcRecords[2].Mileage = 0
  /\ etcRecords[2].VehicleClass = 0
  /\ etcRecords[2].CardNumber = Card1 /\ etcRecords[2].EntryDate = D250901

\* The text fields of a record and the candidate names of each.
TextFields ==
  {<<"EntryDate", EntryDateNames>>, <<"EntryTime", EntryTimeNames>>,
   <<"ExitDate", ExitDateNames>>, <<"ExitTime", ExitTimeNames>>,
   <<"EntryIC", EntryICNames>>, <<"ExitIC", ExitICNames>>,
   <<"RouteInfo", RouteInfoNames>>, <<"VehicleNumber", VehicleNumberNames>>,
   <<"CardNumber", CardNumberNames>>, <<"Notes", NotesNames>>}

\* The least element of a non-empty set of numbers.
Least(S) == CHOOSE k \in S : \A j \in S : k <= j

\* The cell of the row under the first of the names that is in the header
\* map; the empty text when none is, or when the row has no such cell.
UnderFirstPresent(row, names) ==
  LET P == {k \in 1..Len(names) : names[k] \in DOMAIN headerMap} IN
    IF P = {} THEN <<>> ELSE Cell(row, headerMap[names[Least(P)]] + 1)

\* The cell of the row under the first of the names that is in the header
\* map with a column the row holds; the empty text when there is none.
UnderFirstHeld(row, names) ==
  LET P == {k \in 1..Len(names) :
              names[k] \in DOMAIN headerMap /\ headerMap[names[k]] < Len(row)}
  IN IF P = {} THEN <<>> ELSE row[headerMap[names[Least(P)]] + 1]

\* Parse has returned the records of the rows after a header.
HeaderMapped == ParseDone /\ parseErr = "nil" /\ DOMAIN headerMap # {}

HasKeyword(cell) ==
  \E kw \in HeaderKeywords : \E a \in 1..Len(cell) :
    a + Len(kw) - 1 <= Len(cell) /\ SubSeq(cell, a, a + Len(kw) - 1) = kw

\* C26: row 0 is a header exactly when one of its cells contains a keyword.
\* Under a header, row 0 is not emitted and each later row is mapped through
\* the header map; otherwise the header map is empty and the rows, row 0
\* included, are mapped by position. The choice is made once, from row 0, and
\* is the same for every row.
C26_ModeFromRowZero ==
  (reader = "ok" /\ ppc \in {"check", "rows", "done"} /\ Len(csvRows) >= 1)
  => LET hdr  == \E k \in 1..Len(csvRows[1]) : HasKeyword(csvRows[1][k])
         kept == RowsOfAtLeast(csvRows, 13)
     IN /\ startIndex = (IF hdr THEN 1 ELSE 0)
        /\ hdr => /\ DOMAIN headerMap = Range(csvRows[1])
                  /\ Len(etcRecords) <= Len(csvRows) - 1
                  /\ \A k \in 1..Len(etcRecords) :
                       etcRecords[k] = parseWithHeaders(csvRows[k + 1], headerMap)
                  /\ (ppc = "done" /\ Len(csvRows) >= 2)
                       => Len(etcRecords) = Len(csvRows) - 1
        /\ ~hdr => /\ headerMap = EmptyHeaderMap
                   /\ Len(etcRecords) <= Len(kept)
                   /\ \A k \in 1..Len(etcRecords) :
                        etcRecords[k] = parsePositional(kept[k])
                   /\ (ppc = "done" /\ Len(csvRows[1]) >= 13)
                        => (/\ Len(etcRecords) = Len(kept)
                            /\ etcRecords[1] = parsePositional(csvRows[1]))

\* Parse has returned for a header whose first cell holds no keyword: the
\* header is not among the records and both rows after it are.
C26_Witness ==
  /\ ParseDone /\ parseErr = "nil"
  /\ csvRows = <<AltHeaderRow, Row13, Row3>>
  /\ ~HasKeyword(AltHeaderRow[1])
  /\ startIndex = 1
  /\ Len(etcRecords) = 2
  /\ etcRecords[1].EntryDate = T0900 /\ etcRecords[2].EntryDate = D250901

\* C27: whenever Parse returns no error it returns at least one record; an
\* input of which no data row survives, a header alone or only dropped rows,
\* gives the error "no data records found" and not an empty result.
C27_NoErrorMeansRecords ==
  ParseDone =>
    /\ parseErr = "nil" => etcRecords # <<>>
    /\ (Len(csvRows) >= 1 /\ KeptRowNumbers = <<>>)
         => parseErr = "no data records found"

\* C30: getFieldSafe(record, index) returns record[index] for an index of
\* the row and the empty text for every other index, negative ones included;
\* ParseVehicleClass returns 0 for every index that is not of the row; neither
\* fails.
C30_FieldAccessIsTotal ==
  /\ Returned("getFieldSafe") =>
       callRet[1] = (IF 0 <= callArg[2] /\ callArg[2] < Len(callArg[1])
                       THEN callArg[1][callArg[2] + 1] ELSE <<>>)
  /\ Returned("ParseVehicleClass") =>
       /\ ~callRet[1].panic
       /\ (callArg[2] < 0 \/ callArg[2] >= Len(callArg[1]))
            => callRet[1].ret = <<0>>

\* The components the dedup key is built from.
KeyComponents(r) ==
  <<r.EntryDate, r.EntryTime, r.ExitDate, r.ExitTime, r.ETCAmount, r.CardNumber>>

\* C28: the dedup key of processRecords and CreateDuplicateKey is injective:
\* two records have the same key only if their entry date, entry time, exit
\* date, exit time, fee amount and card number are pairwise equal.
C28_KeyIsInjective ==
  Returned("CreateDuplicateKey") =>
    (callRet[1] = callRet[2]
       => KeyComponents(callArg[1]) = KeyComponents(callArg[2]))

\* C24: cancellation is looked at once per record, at the loop head and
\* before the dedup test. A context cancelled while record i is converted or
\* stored leaves record i to its own outcome, saved or errored, without a
\* cancellation diagnostic; the cancellation is seen at the check of the next
\* record, which is then counted as errored with the rest and never as
\* skipped, also when it is a duplicate; after the last record there is no
\* check and no cancellation diagnostic.
C24_CancelSeenAtLoopHead ==
  /\ [][(ctxErr /\ pc \in {"convert", "store"}) =>
          /\ pc' # "done"
          /\ \A k \in 1..Len(errors') : ~IsCancelDiag(errors'[k])
          /\ i' = i + 1 =>
               \/ stats' = [stats EXCEPT !.SavedRecords = @ + 1]
               \/ stats' = [stats EXCEPT !.ErrorRecords = @ + 1]]_vars
  /\ [][(ctxErr /\ pc = "loop" /\ i < Len(records)) =>
          /\ errors' = Append(errors, <<"Processing cancelled at record", i>>)
          /\ stats'.SkippedRecords = stats.SkippedRecords
          /\ stats'.SavedRecords = stats.SavedRecords
          /\ stats'.ErrorRecords = Len(records) - i
          /\ i' = i /\ pc' = "done"]_vars
  /\ []((pc = "done" /\ i = Len(records)) => ~CancelObserved)

\* The context was cancelled while record 0 was in flight: record 0 is saved,
\* the cancellation is seen at record 1, and record 1, a duplicate of record
\* 0 in a run that skips duplicates, is counted as errored and not skipped.
C24_Witness ==
  /\ pc = "done" /\ skipDuplicates /\ ctxErr
  /\ Len(records) = 2 /\ records[1] = records[2]
  /\ WasSaved(0)
  /\ errors = <<<<"Processing cancelled at record", 1>>>>
  /\ stats.SavedRecords = 1 /\ stats.SkippedRecords = 0
  /\ stats.ErrorRecords = 1

\* C29: ValidateCSVData and processRecords agree on duplicates: for the same
\* parsed records, with skipDuplicates and every conversion and store
\* succeeding and no cancellation, the duplicateCount of the one is the
\* skipped count of the other, also for records that differ only in their
\* card number.
C29_DuplicatesAgree ==
  (/\ ValidatedRecords
   /\ pc = "done" /\ records = etcRecords
   /\ skipDuplicates /\ errors = <<>> /\ ~ctxErr)
  => vResponse[1].DuplicateCount = stats.SkippedRecords

\* The call with locals r has saved the record at index j.
SavedBy(r, j) ==
  /\ j < r.i
  /\ <<j, TRUE>> \in Range(r.convertCalls)
  /\ dbClientNil \/ <<j, TRUE>> \in Range(r.storeCalls)

\* The call with locals r has passed over the record at index j.
SkippedBy(r, j) ==
  j < r.i /\ \A c \in Range(r.convertCalls) : c[1] # j

\* The skips, processed keys and counters of the call with locals r follow
\* from its own records and its own conversions and stores.
OwnOutcome(r) ==
  /\ \A j \in 0..(r.i - 1) :
       SkippedBy(r, j) <=>
         /\ r.skipDuplicates
         /\ \E k \in 0..(j - 1) :
              /\ ProcessKey(r.records[k + 1]) = ProcessKey(r.records[j + 1])
              /\ SavedBy(r, k)
  /\ r.processedKeys =
       {ProcessKey(r.records[j + 1]) : j \in {k \in 0..(r.i - 1) : SavedBy(r, k)}}
  /\ r.stats.TotalRecords = Len(r.records)
  /\ r.stats.SkippedRecords = Cardinality({j \in 0..(r.i - 1) : SkippedBy(r, j)})
  /\ r.stats.SavedRecords = Cardinality({j \in 0..(r.i - 1) : SavedBy(r, j)})

\* C23: two calls of processRecords on one service, interleaved in any way,
\* are isolated: each has its own dedup map and counters, the skips and the
\* counts of a call follow from its own records and outcomes alone, and a key
\* saved by one call is not taken as processed by the other.
C23_RunsAreIsolated ==
  parked # <<>> => OwnOutcome(Locals) /\ OwnOutcome(parked)

\* Both calls have returned: the one saved and then skipped the record both
\* were given, the other saved the same record.
C23_Witness ==
  /\ parked # <<>>
  /\ pc = "done" /\ parked.pc = "done"
  /\ skipDuplicates /\ parked.skipDuplicates
  /\ records = <<RecA, RecA>> /\ parked.records = <<RecA>>
  /\ stats.SavedRecords = 1 /\ stats.SkippedRecords = 1
  /\ parked.stats.SavedRecords = 1 /\ parked.stats.SkippedRecords = 0

====
